---- MODULE Spec2Model ----
(***************************************************************************)
(* Wire routing of kicad-mcp-python: SmartRoutingEngine (smart_routing.py) *)
(* and ComponentBoundaryManager (component_boundary.py).                   *)
(*                                                                         *)
(* Units.  The program counts coordinates in nanometres.  The model counts *)
(* them in steps of Step nm, the coarsest lattice on which the grid size,  *)
(* the default clearance and both box margins are whole numbers of steps,  *)
(* so every position the code computes from lattice inputs is again on the *)
(* lattice.  A threshold that is no whole number of steps (the 100,000 nm  *)
(* alignment tolerance, the 5,000,000 nm minimum bus length) is compared   *)
(* in nanometres.                                                          *)
(*                                                                         *)
(* Lengths.  Position.distance_to is math.sqrt(dx*dx + dy*dy), and every   *)
(* total_length of the code is the sum of two such distances.  The model   *)
(* keeps such a sum exactly, as the pair <<a, b>> of the two squared       *)
(* distances (the real number sqrt(a) + sqrt(b), in steps), and compares   *)
(* lengths in exact integer arithmetic.  On an axis-aligned leg the        *)
(* double the code computes is that real number exactly.                   *)
(***************************************************************************)
EXTENDS Integers, Sequences, FiniteSets, TLC

VARIABLES pc, req, ret, component_boundaries, clearance_nm, sys_stdout, router, kicad_wires

vars ==
    <<pc, req, ret, component_boundaries, clearance_nm, sys_stdout, router, kicad_wires>>

----------------------------------------------------------------------------
(* Program constants, in nanometres.                                       *)

grid_size_nm == 1270000

min_bus_length == 5000000

bus_align_tolerance == 100000

wire_axis_tolerance == 100000

body_margin == 635000

margin == 1270000

default_clearance_nm == 635000

----------------------------------------------------------------------------
(* Bounds of the model.                                                    *)

\* pin coordinates of the routing requests range over 0..MaxCoord steps
MaxCoord == 4

----------------------------------------------------------------------------
(* Arithmetic.                                                             *)

Abs(n) == IF n < 0 THEN -n ELSE n

Min(a, b) == IF a <= b THEN a ELSE b

Max(a, b) == IF a >= b THEN a ELSE b

RECURSIVE GCD(_, _)
GCD(a, b) == IF b = 0 THEN a ELSE GCD(b, a % b)

Step == GCD(GCD(grid_size_nm, default_clearance_nm), GCD(body_margin, margin))

\* floor of the square root of a natural number
ISqrt(n) == CHOOSE r \in 0..n : r * r <= n /\ n < (r + 1) * (r + 1)

\* sqrt(a) + sqrt(b) < n, for naturals a, b and an integer n
RootSumLessInt(a, b, n) ==
    /\ n > 0
    /\ n * n - a - b > 0
    /\ 4 * a * b < (n * n - a - b) * (n * n - a - b)

\* the real numbers sqrt(r[1]) + sqrt(r[2]) and sqrt(s[1]) + sqrt(s[2])
RealLess(r, s) ==
    LET \* sqrt(p) - sqrt(q) < k, for naturals p, q and an integer k
        RootDiffLess(p, q, k) ==
            IF k > 0
            THEN LET m == p - q - k * k IN m < 0 \/ m * m < 4 * k * k * q
            ELSE LET m == q - p - k * k IN m > 0 /\ 4 * k * k * p < m * m
    IN
    LET IsSquare(n) == ISqrt(n) * ISqrt(n) = n
    IN
    IF IsSquare(s[1]) /\ IsSquare(s[2])
    THEN RootSumLessInt(r[1], r[2], ISqrt(s[1]) + ISqrt(s[2]))
    ELSE RootDiffLess(4 * r[1] * r[2], 4 * s[1] * s[2],
                      (s[1] + s[2]) - (r[1] + r[2]))

RealEq(r, s) == ~RealLess(r, s) /\ ~RealLess(s, r)

\* k * (sqrt(r[1]) + sqrt(r[2])), for a natural k
RealScale(r, k) == <<k * k * r[1], k * k * r[2]>>

\* the integer n as a length
RealOfInt(n) == <<n * n, 0>>

----------------------------------------------------------------------------
(* Position (smart_routing.py).                                            *)

Pos(x, y) == [x |-> x, y |-> y]

PosSub(a, b) == Pos(a.x - b.x, a.y - b.y)

\* the squared Euclidean distance: distance_to is its square root
DistSq(a, b) == (a.x - b.x) * (a.x - b.x) + (a.y - b.y) * (a.y - b.y)

\* a.distance_to(b) + c.distance_to(d)
distance_sum(a, b, c, d) == <<DistSq(a, b), DistSq(c, d)>>

manhattan_distance_to(a, b) == Abs(a.x - b.x) + Abs(a.y - b.y)

get_connection_point(pin) == pin.position

----------------------------------------------------------------------------
(* SmartRoutingEngine.compute_break_point.                                 *)

RoutingModes == {"manhattan", "direct", "free", "45_degree"}

x_dir(start, end) == IF end.x - start.x > 0 THEN 1 ELSE -1

y_dir(start, end) == IF end.y - start.y > 0 THEN 1 ELSE -1

\* mutant: the 45-degree vertical break steps away from end against y_dir
break_vertical_wrong_sign(start, end, mode) ==
    IF mode = "45_degree"
    THEN Pos(start.x, end.y + y_dir(start, end) * Abs(end.x - start.x))
    ELSE Pos(start.x, end.y)

break_vertical(start, end, mode) ==
    IF mode = "45_degree"
    THEN Pos(start.x, end.y - y_dir(start, end) * Abs(end.x - start.x))
    ELSE Pos(start.x, end.y)

break_horizontal(start, end, mode) ==
    IF mode = "45_degree"
    THEN Pos(end.x - x_dir(start, end) * Abs(end.y - start.y), start.y)
    ELSE Pos(end.x, start.y)

\* "choose based on smaller dimension"
break_by_distance(start, end, mode) ==
    IF Abs(end.x - start.x) < Abs(end.y - start.y)
    THEN break_vertical(start, end, mode)
    ELSE break_horizontal(start, end, mode)

\* mutant: prefer_horizontal is tested before prefer_vertical
break_preferred_horizontal_first(start, end, mode, prefer_horizontal, prefer_vertical) ==
    IF prefer_horizontal THEN break_horizontal(start, end, mode)
    ELSE IF prefer_vertical THEN break_vertical(start, end, mode)
    ELSE break_by_distance(start, end, mode)

\* the midpoint after "Apply KiCad's preference logic"
break_preferred(start, end, mode, prefer_horizontal, prefer_vertical) ==
    IF prefer_vertical THEN break_vertical(start, end, mode)
    ELSE IF prefer_horizontal THEN break_horizontal(start, end, mode)
    ELSE break_by_distance(start, end, mode)

\* mutant: only the direction along x is checked
invalid_45_x_only(start, end, mode, midpoint) ==
    /\ mode = "45_degree"
    /\ ((midpoint.x - start.x > 0) # (end.x - start.x > 0))

\* "Check for invalid 45-degree configurations"
invalid_45(start, end, mode, midpoint) ==
    /\ mode = "45_degree"
    /\ \/ ((midpoint.x - start.x > 0) # (end.x - start.x > 0))
       \/ ((midpoint.y - start.y > 0) # (end.y - start.y > 0))

compute_break_point(start, end, mode, prefer_horizontal, prefer_vertical) ==
    IF mode = "direct" THEN end
    ELSE
      LET m1 == break_preferred(start, end, mode, prefer_horizontal, prefer_vertical)
          bad == invalid_45(start, end, mode, m1)
          \* an invalid 45-degree midpoint resets both preferences
          ph == prefer_horizontal /\ ~bad
          pv == prefer_vertical /\ ~bad
          m2 == IF bad THEN break_by_distance(start, end, mode) ELSE m1
      IN  \* "Final fallback - if no preferences set, use distance-based"
          IF ~ph /\ ~pv THEN break_by_distance(start, end, mode) ELSE m2

----------------------------------------------------------------------------
(* SmartRoutingEngine._get_routing_preferences: <<prefer_horizontal,       *)
(* prefer_vertical>>.                                                      *)

is_horizontal_pin(pin) == pin.orientation \in {0, 2}

is_vertical_pin(pin) == pin.orientation \in {1, 3}

\* mutant: the x alignment is tested before the y alignment
get_routing_preferences_x_first(start_pin, end_pin) ==
    IF Abs(start_pin.position.x - end_pin.position.x) * Step < grid_size_nm
    THEN <<FALSE, TRUE>>
    ELSE IF Abs(start_pin.position.y - end_pin.position.y) * Step < grid_size_nm
    THEN <<TRUE, FALSE>>
    ELSE IF is_horizontal_pin(start_pin) /\ is_horizontal_pin(end_pin)
    THEN <<FALSE, TRUE>>
    ELSE IF is_vertical_pin(start_pin) /\ is_vertical_pin(end_pin)
    THEN <<TRUE, FALSE>>
    ELSE <<FALSE, FALSE>>

get_routing_preferences(start_pin, end_pin) ==
    IF Abs(start_pin.position.y - end_pin.position.y) * Step < grid_size_nm
    THEN <<TRUE, FALSE>>
    ELSE IF Abs(start_pin.position.x - end_pin.position.x) * Step < grid_size_nm
    THEN <<FALSE, TRUE>>
    ELSE IF is_horizontal_pin(start_pin) /\ is_horizontal_pin(end_pin)
    THEN <<FALSE, TRUE>>
    ELSE IF is_vertical_pin(start_pin) /\ is_vertical_pin(end_pin)
    THEN <<TRUE, FALSE>>
    ELSE <<FALSE, FALSE>>

----------------------------------------------------------------------------
(* RoutingPath and SmartRoutingEngine.generate_manhattan_path.             *)

\* quality_score = 1000000.0 / (total_length + 1.0), kept as the length it
\* is computed from
quality_of(total_length) == [num |-> 1000000, len |-> total_length]

RoutingPath(start_pin, end_pin, segments, total_length, mode) ==
    [start_pin |-> start_pin, end_pin |-> end_pin, segments |-> segments,
     total_length |-> total_length, mode |-> mode,
     quality_score |-> quality_of(total_length)]

Seg(a, b) == [start |-> a, end |-> b]

\* mutant: the break point is computed in Direct mode
generate_manhattan_path_direct_break(start_pin, end_pin) ==
    LET start_pos == get_connection_point(start_pin)
        end_pos == get_connection_point(end_pin)
        prefs == get_routing_preferences(start_pin, end_pin)
        break_point == compute_break_point(start_pos, end_pos, "direct",
                                           prefs[1], prefs[2])
    IN  RoutingPath(start_pin, end_pin,
                    <<Seg(start_pos, break_point), Seg(break_point, end_pos)>>,
                    distance_sum(start_pos, break_point, break_point, end_pos),
                    "manhattan")

generate_manhattan_path(start_pin, end_pin) ==
    LET start_pos == get_connection_point(start_pin)
        end_pos == get_connection_point(end_pin)
        prefs == get_routing_preferences(start_pin, end_pin)
        break_point == compute_break_point(start_pos, end_pos, "manhattan",
                                           prefs[1], prefs[2])
    IN  RoutingPath(start_pin, end_pin,
                    <<Seg(start_pos, break_point), Seg(break_point, end_pos)>>,
                    distance_sum(start_pos, break_point, break_point, end_pos),
                    "manhattan")

----------------------------------------------------------------------------
(* SmartWireTool._extract_wire_structures: the wire dictionaries handed to *)
(* the engine.  A raw wire is a 'Line' item [id, start, end, layer_type,   *)
(* unit]: x_nm and y_nm of start and end are kept as multiples of unit.    *)

\* _calculate_wire_length: the square root of this, in steps
calculate_wire_length_sq(start, end) == DistSq(start, end)

\* mutant: a difference equal to the tolerance still counts as horizontal
is_horizontal_wire_inclusive(start, end) == Abs(end.y - start.y) <= wire_axis_tolerance

\* start and end in nanometres
is_horizontal_wire(start, end) == Abs(end.y - start.y) < wire_axis_tolerance

is_vertical_wire(start, end) == Abs(end.x - start.x) < wire_axis_tolerance

enrich_wire(wire) ==
    LET in_nm(position) == [x |-> position.x * wire.unit, y |-> position.y * wire.unit]
    IN  [id |-> wire.id, start |-> wire.start, end |-> wire.end,
         layer_type |-> wire.layer_type, unit |-> wire.unit,
         length_sq |-> calculate_wire_length_sq(wire.start, wire.end),
         is_horizontal |-> is_horizontal_wire(in_nm(wire.start), in_nm(wire.end)),
         is_vertical |-> is_vertical_wire(in_nm(wire.start), in_nm(wire.end))]

extract_wire_structures(items) == [i \in 1..Len(items) |-> enrich_wire(items[i])]

----------------------------------------------------------------------------
(* SmartRoutingEngine._analyze_bus_structures.                             *)

\* unit * sqrt(len_sq) < nm, with both sides divided by their common factor
LengthBelowNm(len_sq, unit, nm) ==
    LET g == GCD(unit, nm)
    IN  len_sq * (unit \div g) * (unit \div g) < (nm \div g) * (nm \div g)

\* mutant: graphical lines and buses count as electrical wires
is_bus_wire_any_layer(wire) ==
    /\ ~LengthBelowNm(wire.length_sq, wire.unit, min_bus_length)
    /\ (wire.is_horizontal \/ wire.is_vertical)

\* the wire is skipped by one of the two "continue"s or is not axis-aligned
is_bus_wire(wire) ==
    /\ wire.layer_type = "WIRE"
    /\ ~LengthBelowNm(wire.length_sq, wire.unit, min_bus_length)
    /\ (wire.is_horizontal \/ wire.is_vertical)

\* coordinate and range are counted in the wire's unit
bus_of(wire) ==
    IF wire.is_horizontal
    THEN [type |-> "horizontal", id |-> wire.id, coordinate |-> wire.start.y,
          range_start |-> Min(wire.start.x, wire.end.x),
          range_end |-> Max(wire.start.x, wire.end.x),
          length_sq |-> wire.length_sq, unit |-> wire.unit]
    ELSE [type |-> "vertical", id |-> wire.id, coordinate |-> wire.start.x,
          range_start |-> Min(wire.start.y, wire.end.y),
          range_end |-> Max(wire.start.y, wire.end.y),
          length_sq |-> wire.length_sq, unit |-> wire.unit]

\* buses.sort(key=length, reverse=True): a stable sort, longest first
RECURSIVE insert_by_length(_, _)
insert_by_length(bus, sorted) ==
    IF sorted = <<>> THEN <<bus>>
    ELSE IF Head(sorted).length_sq >= bus.length_sq
    THEN <<Head(sorted)>> \o insert_by_length(bus, Tail(sorted))
    ELSE <<bus>> \o sorted

RECURSIVE sort_by_length(_, _)
sort_by_length(buses, sorted) ==
    IF buses = <<>> THEN sorted
    ELSE sort_by_length(Tail(buses), insert_by_length(Head(buses), sorted))

analyze_bus_structures(existing_wires) ==
    sort_by_length([i \in 1..Len(SelectSeq(existing_wires, is_bus_wire)) |->
                        bus_of(SelectSeq(existing_wires, is_bus_wire)[i])], <<>>)

----------------------------------------------------------------------------
(* SmartRoutingEngine._find_optimal_bus_connection_point.                  *)

\* max(range_start, min(range_end, v))
clamp_to_bus(bus, v) == Max(bus.range_start, Min(bus.range_end, v))

\* mutant: on equal total lengths the connection at end's y is returned
find_optimal_bus_connection_point_end_on_tie(start_pos, end_pos, bus) ==
    IF bus.type = "horizontal"
    THEN LET bus_y == bus.coordinate
             start_aligned == Abs(start_pos.y - bus_y) * bus.unit < bus_align_tolerance
             end_aligned == Abs(end_pos.y - bus_y) * bus.unit < bus_align_tolerance
         IN  IF start_aligned THEN Pos(clamp_to_bus(bus, start_pos.x), bus_y)
             ELSE IF end_aligned THEN Pos(clamp_to_bus(bus, end_pos.x), bus_y)
             ELSE Pos(clamp_to_bus(bus, (start_pos.x + end_pos.x) \div 2), bus_y)
    ELSE LET bus_x == bus.coordinate
             start_connection == Pos(bus_x, clamp_to_bus(bus, start_pos.y))
             end_connection == Pos(bus_x, clamp_to_bus(bus, end_pos.y))
             start_total_length ==
                 distance_sum(start_pos, start_connection, start_connection, end_pos)
             end_total_length ==
                 distance_sum(start_pos, end_connection, end_connection, end_pos)
         IN  IF RealLess(start_total_length, end_total_length)
             THEN start_connection
             ELSE end_connection

\* start_pos, end_pos and the bus are counted in bus.unit nanometres
find_optimal_bus_connection_point(start_pos, end_pos, bus) ==
    IF bus.type = "horizontal"
    THEN LET bus_y == bus.coordinate
             start_aligned == Abs(start_pos.y - bus_y) * bus.unit < bus_align_tolerance
             end_aligned == Abs(end_pos.y - bus_y) * bus.unit < bus_align_tolerance
         IN  IF start_aligned THEN Pos(clamp_to_bus(bus, start_pos.x), bus_y)
             ELSE IF end_aligned THEN Pos(clamp_to_bus(bus, end_pos.x), bus_y)
             ELSE Pos(clamp_to_bus(bus, (start_pos.x + end_pos.x) \div 2), bus_y)
    ELSE LET bus_x == bus.coordinate
             start_connection == Pos(bus_x, clamp_to_bus(bus, start_pos.y))
             end_connection == Pos(bus_x, clamp_to_bus(bus, end_pos.y))
             start_total_length ==
                 distance_sum(start_pos, start_connection, start_connection, end_pos)
             end_total_length ==
                 distance_sum(start_pos, end_connection, end_connection, end_pos)
         IN  IF ~RealLess(end_total_length, start_total_length)
             THEN start_connection
             ELSE end_connection

----------------------------------------------------------------------------
(* SmartRoutingEngine._generate_bus_routing_path.                          *)

\* mutant: the final leg from the bus to the destination is never added
bus_segments_no_final_leg(start_pos, end_pos, connection_point) ==
    IF start_pos.x # connection_point.x /\ start_pos.y # connection_point.y
    THEN <<Seg(start_pos, Pos(connection_point.x, start_pos.y)),
           Seg(Pos(connection_point.x, start_pos.y), connection_point)>>
    ELSE <<Seg(start_pos, connection_point)>>

\* the segments built for one bus connection point
bus_segments(start_pos, end_pos, connection_point) ==
    (IF start_pos.x # connection_point.x /\ start_pos.y # connection_point.y
     THEN <<Seg(start_pos, Pos(connection_point.x, start_pos.y)),
            Seg(Pos(connection_point.x, start_pos.y), connection_point)>>
     ELSE <<Seg(start_pos, connection_point)>>)
    \o
    (IF connection_point.x # end_pos.x \/ connection_point.y # end_pos.y
     THEN <<Seg(connection_point, end_pos)>>
     ELSE <<>>)

\* start_pin=None, end_pin=None: "Will be set by caller"
NonePin == [id |-> "None"]

\* the RoutingPath built for one bus
bus_path_via(start_pos, end_pos, bus) ==
    LET connection_point == find_optimal_bus_connection_point(start_pos, end_pos, bus)
    IN  RoutingPath(NonePin, NonePin,
                    bus_segments(start_pos, end_pos, connection_point),
                    distance_sum(start_pos, connection_point,
                                 connection_point, end_pos),
                    "manhattan")
        @@ [bus_used |-> bus.id]

\* the loop over bus_structures.  best is <<>> while best_path is None and
\* best_length is inf, and <<best_path>> afterwards
RECURSIVE bus_routing_loop(_, _, _, _)
bus_routing_loop(start_pos, end_pos, buses, best) ==
    IF buses = <<>> THEN best
    ELSE LET candidate == bus_path_via(start_pos, end_pos, Head(buses))
             shorter == \/ best = <<>>
                        \/ RealLess(candidate.total_length, best[1].total_length)
         IN  bus_routing_loop(start_pos, end_pos, Tail(buses),
                              IF shorter THEN <<candidate>> ELSE best)

\* <<>> for None, else <<best_path>>
generate_bus_routing_path(start_pos, end_pos, bus_structures) ==
    bus_routing_loop(start_pos, end_pos, bus_structures, <<>>)

----------------------------------------------------------------------------
(* SmartRoutingEngine._is_better_path.                                     *)

IsZero(r) == r[1] = 0 /\ r[2] = 0

\* (d - b) / d > 1 / den, for a length d > 0: den * b < (den - 1) * d
improvement_above(b, d, den) == RealLess(RealScale(b, den), RealScale(d, den - 1))

\* the division by direct_path.total_length raises ZeroDivisionError
is_better_path_raises(bus_path, direct_path) == IsZero(direct_path.total_length)

\* the value returned when the division does not raise; 0.1 and 0.05
is_better_path(bus_path, direct_path) ==
    \/ improvement_above(bus_path.total_length, direct_path.total_length, 10)
    \/ /\ improvement_above(bus_path.total_length, direct_path.total_length, 20)
       /\ RealLess(bus_path.total_length, direct_path.total_length)

----------------------------------------------------------------------------
(* SmartRoutingEngine._generate_direct_manhattan_path and                  *)
(* generate_bus_aware_manhattan_path.  A result is [raised, path].         *)

generate_direct_manhattan_path(start_pin, end_pin) ==
    LET start_pos == get_connection_point(start_pin)
        end_pos == get_connection_point(end_pin)
        prefs == get_routing_preferences(start_pin, end_pin)
        break_point == compute_break_point(start_pos, end_pos, "manhattan",
                                           prefs[1], prefs[2])
    IN  RoutingPath(start_pin, end_pin,
                    <<Seg(start_pos, break_point), Seg(break_point, end_pos)>>,
                    distance_sum(start_pos, break_point, break_point, end_pos),
                    "manhattan")

Returned(path) == [raised |-> "none", path |-> <<path>>]

Raised(exc) == [raised |-> exc, path |-> <<>>]

generate_bus_aware_manhattan_path(start_pin, end_pin, existing_wires) ==
    LET start_pos == get_connection_point(start_pin)
        end_pos == get_connection_point(end_pin)
        bus_structures == analyze_bus_structures(existing_wires)
        direct_path == generate_direct_manhattan_path(start_pin, end_pin)
        bus_aware_path == generate_bus_routing_path(start_pos, end_pos, bus_structures)
    IN  IF bus_structures # <<>> /\ bus_aware_path # <<>>
        THEN IF is_better_path_raises(bus_aware_path[1], direct_path)
             THEN Raised("ZeroDivisionError")
             ELSE IF is_better_path(bus_aware_path[1], direct_path)
             THEN Returned([bus_aware_path[1] EXCEPT !.start_pin = start_pin,
                                                     !.end_pin = end_pin])
             ELSE Returned(direct_path)
        ELSE Returned(direct_path)

----------------------------------------------------------------------------
(* component_boundary.py: BoundingBox and ComponentBoundaryManager.        *)
(* Everything in this part is in nanometres, because the clipping of a     *)
(* slanted segment floors its quotient to a whole nanometre.               *)

Nm(p) == Pos(p.x * Step, p.y * Step)

\* <<quotient, remainder>> of x * n by c for 0 <= x < c and n >= 0, by
\* doubling, so that no intermediate value leaves the 32-bit range
RECURSIVE MulDivMod(_, _, _)
MulDivMod(x, n, c) ==
    IF n = 0 THEN <<0, 0>>
    ELSE CHOOSE result \in
             {<<2 * half[1] + (2 * half[2] + (IF n % 2 = 1 THEN x ELSE 0)) \div c,
                (2 * half[2] + (IF n % 2 = 1 THEN x ELSE 0)) % c>> :
                 half \in {MulDivMod(x, n \div 2, c)}} : TRUE

\* Python's a * b // c (rounding towards minus infinity), c # 0
FloorMulDiv(a, b, c) ==
    LET Sign(n) == IF n < 0 THEN -1 ELSE IF n > 0 THEN 1 ELSE 0
    IN
    LET d == Abs(c)
        floored(low, quot) ==
            IF Sign(a) * Sign(b) * Sign(c) < 0
            THEN -(quot + (IF low[2] > 0 THEN 1 ELSE 0))
            ELSE quot
    IN  CHOOSE result \in {floored(low, (Abs(a) \div d) * Abs(b) + low[1]) :
                               low \in {MulDivMod(Abs(a) % d, Abs(b), d)}} : TRUE

BoundingBox(top_left, bottom_right, symbol_id, bbox_type) ==
    [top_left |-> top_left, bottom_right |-> bottom_right,
     symbol_id |-> symbol_id, bbox_type |-> bbox_type]

center(bbox) ==
    Pos((bbox.top_left.x + bbox.bottom_right.x) \div 2,
        (bbox.top_left.y + bbox.bottom_right.y) \div 2)

expand(bbox, margin_nm) ==
    BoundingBox(Pos(bbox.top_left.x - margin_nm, bbox.top_left.y - margin_nm),
                Pos(bbox.bottom_right.x + margin_nm, bbox.bottom_right.y + margin_nm),
                bbox.symbol_id, bbox.bbox_type)

INSIDE == 0

LEFT == 1

RIGHT == 2

BOTTOM == 4

TOP == 8

\* outcode & zone, for one of the four zone bits
HasZone(outcode, zone) == (outcode \div zone) % 2 = 1

\* outcode1 & outcode2 is non-zero
ShareZone(outcode1, outcode2) ==
    \E zone \in {LEFT, RIGHT, BOTTOM, TOP} :
        HasZone(outcode1, zone) /\ HasZone(outcode2, zone)

compute_outcode(bbox, x, y) ==
    (IF x < bbox.top_left.x THEN LEFT
     ELSE IF x > bbox.bottom_right.x THEN RIGHT ELSE INSIDE)
    + (IF y < bbox.top_left.y THEN BOTTOM
       ELSE IF y > bbox.bottom_right.y THEN TOP ELSE INSIDE)

\* mutant: the endpoint outside the box is left where it is
clip_point_unmoved(bbox, p1, p2, outcode_out) ==
    IF outcode_out = compute_outcode(bbox, p1.x, p1.y) THEN p1 ELSE p2

\* the point where the line through p1 and p2 meets the box edge of the
\* first zone of outcode_out, in the order TOP, BOTTOM, RIGHT, LEFT
clip_point(bbox, p1, p2, outcode_out) ==
    IF HasZone(outcode_out, TOP)
    THEN Pos(p1.x + FloorMulDiv(p2.x - p1.x, bbox.bottom_right.y - p1.y, p2.y - p1.y),
             bbox.bottom_right.y)
    ELSE IF HasZone(outcode_out, BOTTOM)
    THEN Pos(p1.x + FloorMulDiv(p2.x - p1.x, bbox.top_left.y - p1.y, p2.y - p1.y),
             bbox.top_left.y)
    ELSE IF HasZone(outcode_out, RIGHT)
    THEN Pos(bbox.bottom_right.x,
             p1.y + FloorMulDiv(p2.y - p1.y, bbox.bottom_right.x - p1.x, p2.x - p1.x))
    ELSE IF HasZone(outcode_out, LEFT)
    THEN Pos(bbox.top_left.x,
             p1.y + FloorMulDiv(p2.y - p1.y, bbox.top_left.x - p1.x, p2.x - p1.x))
    ELSE Pos(0, 0)

\* the "while True" loop of the Cohen-Sutherland test
RECURSIVE clip_loop(_, _, _, _, _)
clip_loop(bbox, p1, p2, outcode1, outcode2) ==
    IF outcode1 = INSIDE /\ outcode2 = INSIDE THEN TRUE
    ELSE IF ShareZone(outcode1, outcode2) THEN FALSE
    ELSE LET outcode_out == IF outcode1 # INSIDE THEN outcode1 ELSE outcode2
             clipped == clip_point(bbox, p1, p2, outcode_out)
         IN  IF outcode_out = outcode1
             THEN clip_loop(bbox, clipped, p2,
                            compute_outcode(bbox, clipped.x, clipped.y), outcode2)
             ELSE clip_loop(bbox, p1, clipped,
                            outcode1, compute_outcode(bbox, clipped.x, clipped.y))

\* mutant: a hit needs an endpoint inside the box
line_intersects_rectangle_endpoint_inside(bbox, p1, p2) ==
    \/ compute_outcode(bbox, p1.x, p1.y) = INSIDE
    \/ compute_outcode(bbox, p2.x, p2.y) = INSIDE

line_intersects_rectangle(bbox, p1, p2) ==
    clip_loop(bbox, p1, p2, compute_outcode(bbox, p1.x, p1.y),
              compute_outcode(bbox, p2.x, p2.y))

intersects_line(bbox, start, end) == line_intersects_rectangle(bbox, start, end)

SeqMin(values) == CHOOSE v \in {values[i] : i \in DOMAIN values} :
                      \A i \in DOMAIN values : v <= values[i]

SeqMax(values) == CHOOSE v \in {values[i] : i \in DOMAIN values} :
                      \A i \in DOMAIN values : v >= values[i]

\* mutant: the margin box around the position, whatever the pins
symbol_bbox_around_position(symbol, bbox_type) ==
    BoundingBox(Pos(symbol.position.x - margin, symbol.position.y - margin),
                Pos(symbol.position.x + margin, symbol.position.y + margin),
                symbol.id, bbox_type)

\* the box estimated for a symbol
symbol_bbox(symbol, bbox_type) ==
    IF symbol.pins = <<>>
    THEN BoundingBox(Pos(symbol.position.x - margin, symbol.position.y - margin),
                     Pos(symbol.position.x + margin, symbol.position.y + margin),
                     symbol.id, bbox_type)
    ELSE LET xs == [i \in DOMAIN symbol.pins |-> symbol.pins[i].position.x]
             ys == [i \in DOMAIN symbol.pins |-> symbol.pins[i].position.y]
         IN  BoundingBox(Pos(SeqMin(xs) - body_margin, SeqMin(ys) - body_margin),
                         Pos(SeqMax(xs) + body_margin, SeqMax(ys) + body_margin),
                         symbol.id, bbox_type)

\* mutant: a registration always adds an entry
add_component_boundary_append(boundaries, symbol, bbox_type) ==
    Append(boundaries, symbol_bbox(symbol, bbox_type))

\* self.component_boundaries[symbol.id] = bbox: a known key keeps its place
add_component_boundary(boundaries, symbol, bbox_type) ==
    IF \E i \in DOMAIN boundaries : boundaries[i].symbol_id = symbol.id
    THEN [i \in DOMAIN boundaries |->
             IF boundaries[i].symbol_id = symbol.id
             THEN symbol_bbox(symbol, bbox_type) ELSE boundaries[i]]
    ELSE Append(boundaries, symbol_bbox(symbol, bbox_type))

\* mutant: the boxes are tested without the clearance margin
segment_collisions_no_clearance(boundaries, clearance, segment, exclude_pins) ==
    LET collides(bbox) ==
            /\ bbox.symbol_id \notin exclude_pins
            /\ intersects_line(bbox, segment.start, segment.end)
    IN  SelectSeq(boundaries, collides)

\* the inner loop of check_path_collision: the boxes one segment runs into
segment_collisions(boundaries, clearance, segment, exclude_pins) ==
    LET collides(bbox) ==
            /\ bbox.symbol_id \notin exclude_pins
            /\ intersects_line(expand(bbox, clearance), segment.start, segment.end)
    IN  SelectSeq(boundaries, collides)

RECURSIVE path_collisions(_, _, _, _)
path_collisions(boundaries, clearance, segments, exclude_pins) ==
    IF segments = <<>> THEN <<>>
    ELSE segment_collisions(boundaries, clearance, Head(segments), exclude_pins)
         \o path_collisions(boundaries, clearance, Tail(segments), exclude_pins)

\* colliding_components is list(set(...)): its order is not determined, so
\* it is kept as the set
check_path_collision(boundaries, clearance, path, exclude_pins) ==
    LET hits == path_collisions(boundaries, clearance, path.segments, exclude_pins)
    IN  [has_collision |-> Len(hits) > 0,
         colliding_components |-> {hits[i].symbol_id : i \in DOMAIN hits},
         collision_points |-> [i \in DOMAIN hits |-> center(hits[i])],
         suggested_clearance |-> clearance * 2]

\* the boxes of the store that overlap the rectangle spanned by two points
find_components_in_region(boundaries, region_start, region_end) ==
    LET min_x == Min(region_start.x, region_end.x)
        max_x == Max(region_start.x, region_end.x)
        min_y == Min(region_start.y, region_end.y)
        max_y == Max(region_start.y, region_end.y)
        overlaps(bbox) ==
            /\ bbox.top_left.x <= max_x
            /\ bbox.bottom_right.x >= min_x
            /\ bbox.top_left.y <= max_y
            /\ bbox.bottom_right.y >= min_y
    IN  SelectSeq(boundaries, overlaps)

suggest_detour_points(clearance, start, end, colliding_bbox) ==
    LET expanded == expand(colliding_bbox, clearance)
        middle == center(colliding_bbox)
    IN  IF start.y < middle.y /\ end.y < middle.y
        THEN <<Pos(start.x, expanded.top_left.y - clearance),
               Pos(end.x, expanded.top_left.y - clearance)>>
        ELSE IF start.y > middle.y /\ end.y > middle.y
        THEN <<Pos(start.x, expanded.bottom_right.y + clearance),
               Pos(end.x, expanded.bottom_right.y + clearance)>>
        ELSE IF start.x < middle.x
        THEN <<Pos(expanded.top_left.x - clearance, start.y),
               Pos(expanded.top_left.x - clearance, end.y)>>
        ELSE <<Pos(expanded.bottom_right.x + clearance, start.y),
               Pos(expanded.bottom_right.x + clearance, end.y)>>

\* None is the empty sequence, a zone the one-element sequence
get_component_clearance_zone(boundaries, clearance, symbol_id) ==
    LET found == SelectSeq(boundaries, LAMBDA bbox : bbox.symbol_id = symbol_id)
    IN  IF found = <<>> THEN <<>> ELSE <<expand(found[1], clearance)>>

width(bbox) == bbox.bottom_right.x - bbox.top_left.x

height(bbox) == bbox.bottom_right.y - bbox.top_left.y

RECURSIVE obstacle_area(_)
obstacle_area(components) ==
    IF components = <<>> THEN 0
    ELSE (width(Head(components)) \div Step) * (height(Head(components)) \div Step)
         + obstacle_area(Tail(components))

\* areas are in squared steps and obstacle_density is the fraction
\* <<obstacle area, corridor area>>, <<0, 1>> when the corridor has no area;
\* corridor_length is the length sqrt(a) + sqrt(b) in steps
optimize_routing_corridor(boundaries, clearance, start, end) ==
    LET corridor_components == find_components_in_region(boundaries, start, end)
        corridor_area == (Abs(end.x - start.x) \div Step) * (Abs(end.y - start.y) \div Step)
        obstacle_density ==
            IF corridor_area > 0
            THEN <<obstacle_area(corridor_components), corridor_area>> ELSE <<0, 1>>
    IN  [corridor_length |->
             <<DistSq(Pos(start.x \div Step, start.y \div Step),
                      Pos(end.x \div Step, end.y \div Step)), 0>>,
         component_count |-> Len(corridor_components),
         obstacle_density |-> obstacle_density,
         suggested_strategy |->
             IF 10 * obstacle_density[1] < obstacle_density[2] THEN "direct"
             ELSE IF 10 * obstacle_density[1] < 3 * obstacle_density[2]
             THEN "simple_detour"
             ELSE "complex_multi_segment",
         clearance_required_nm |-> clearance,
         components_in_path |->
             [i \in DOMAIN corridor_components |-> corridor_components[i].symbol_id]]

----------------------------------------------------------------------------
(* The inputs of the routing engine's operations.                          *)

Points ==
    LET Coords == 0..MaxCoord
    IN  {Pos(x, y) : x \in Coords, y \in Coords}

\* 0=East, 1=North, 2=West, 3=South
Orientations == 0..3

PinAt(id, number, position, orientation) ==
    [id |-> id, number |-> number, position |-> position, orientation |-> orientation]

StartPins == {PinAt("P1", "1", p, o) : p \in Points, o \in Orientations}

EndPins == {PinAt("P2", "2", p, o) : p \in Points, o \in Orientations}

\* a wire whose coordinates are whole steps
RawWire(id, a, b, layer_type) ==
    [id |-> id, start |-> a, end |-> b, layer_type |-> layer_type, unit |-> Step]

WireLists ==
    LET \* wires that are too short, not axis-aligned, or not on the WIRE layer
        OtherWires ==
            {RawWire("S4", Pos(0, 1), Pos(4, 1), "WIRE"),
             RawWire("S7", Pos(-2, 1), Pos(5, 1), "WIRE"),
             RawWire("DG", Pos(-2, -2), Pos(MaxCoord + 2, MaxCoord + 2), "WIRE"),
             RawWire("GR", Pos(-2, 2), Pos(MaxCoord + 2, 2), "GRAPHICAL"),
             RawWire("BU", Pos(2, -2), Pos(2, MaxCoord + 2), "BUS")}
    IN
    LET \* axis-aligned electrical wires of at least 5 mm (8 steps and more)
        LongWires ==
            {RawWire("H0", Pos(-2, 0), Pos(MaxCoord + 2, 0), "WIRE"),
             RawWire("H2", Pos(-2, 2), Pos(MaxCoord + 2, 2), "WIRE"),
             RawWire("V1", Pos(1, -2), Pos(1, MaxCoord + 2), "WIRE"),
             RawWire("V2", Pos(2, -2), Pos(2, MaxCoord + 2), "WIRE"),
             RawWire("HP", Pos(2, 2), Pos(10, 2), "WIRE"),
             RawWire("VP", Pos(3, 1), Pos(3, -7), "WIRE"),
             RawWire("HR", Pos(MaxCoord + 2, 3), Pos(-2, 3), "WIRE"),
             RawWire("HL", Pos(-3, 4), Pos(MaxCoord + 3, 4), "WIRE")}
    IN
    {<<>>}
    \cup {<<w>> : w \in LongWires \cup OtherWires}
    \cup {ws \in {<<w1, w2>> : w1 \in LongWires \cup OtherWires, w2 \in LongWires} :
            ws[1] # ws[2]}

\* the pin orientations tried with wires present: both East/West, both
\* North/South, mixed
BusOrientations == {<<0, 2>>, <<1, 3>>, <<0, 1>>}

\* (start.x + end.x) // 2 in nanometres is a whole number of steps
MidpointOnLattice(start_pin, end_pin) ==
    ((start_pin.position.x + end_pin.position.x) * Step) % (2 * Step) = 0

----------------------------------------------------------------------------
(* The routing engine as a state machine: one call at a time, on inputs    *)
(* drawn from the sets above.  pc names the operation that has returned.   *)

\* what sys.stdout is bound to when the process starts
Console == "console"

NoReq == [op |-> "none"]

NoRet == [raised |-> "none"]

\* component_boundaries is a dict: its entries in insertion order
NoBoundaries == <<>>

\* SchematicSmartRouter.__init__: the caches of the stepwise workflow.
\* cached_schematic_items is <<>> while the attribute is not set and
\* <<value>> once it is, value being NoItems for None
NoRouter ==
    [cached_routing_mode |-> "none", cached_symbols_data |-> <<>>,
     cached_routing_constraints |-> FALSE, cached_schematic_items |-> <<>>]

Init ==
    /\ pc = "idle"
    /\ req = NoReq
    /\ ret = NoRet
    /\ component_boundaries = NoBoundaries
    /\ clearance_nm = default_clearance_nm
    /\ sys_stdout = Console
    /\ router = NoRouter
    /\ kicad_wires = <<>>

ComputeBreakPoint ==
    /\ pc = "idle"
    /\ \E start \in Points, end \in Points, mode \in RoutingModes,
          prefer_horizontal \in BOOLEAN, prefer_vertical \in BOOLEAN :
          /\ req' = [op |-> "compute_break_point", start |-> start, end |-> end,
                     mode |-> mode, prefer_horizontal |-> prefer_horizontal,
                     prefer_vertical |-> prefer_vertical]
          /\ ret' = compute_break_point(start, end, mode,
                                        prefer_horizontal, prefer_vertical)
    /\ pc' = "compute_break_point"
    /\ UNCHANGED <<component_boundaries, clearance_nm, sys_stdout, router, kicad_wires>>

GetRoutingPreferences ==
    /\ pc = "idle"
    /\ \E start_pin \in StartPins, end_pin \in EndPins :
          /\ req' = [op |-> "_get_routing_preferences",
                     start_pin |-> start_pin, end_pin |-> end_pin]
          /\ ret' = get_routing_preferences(start_pin, end_pin)
    /\ pc' = "_get_routing_preferences"
    /\ UNCHANGED <<component_boundaries, clearance_nm, sys_stdout, router, kicad_wires>>

GenerateManhattanPath ==
    /\ pc = "idle"
    /\ \E start_pin \in StartPins, end_pin \in EndPins :
          /\ req' = [op |-> "generate_manhattan_path",
                     start_pin |-> start_pin, end_pin |-> end_pin]
          /\ ret' = Returned(generate_manhattan_path(start_pin, end_pin))
    /\ pc' = "generate_manhattan_path"
    /\ UNCHANGED <<component_boundaries, clearance_nm, sys_stdout, router, kicad_wires>>

GenerateBusAwareManhattanPath ==
    /\ pc = "idle"
    /\ \E start_pin \in StartPins, end_pin \in EndPins, items \in WireLists :
          /\ <<start_pin.orientation, end_pin.orientation>> \in BusOrientations
          /\ MidpointOnLattice(start_pin, end_pin)
          /\ req' = [op |-> "generate_bus_aware_manhattan_path",
                     start_pin |-> start_pin, end_pin |-> end_pin,
                     existing_wires |-> extract_wire_structures(items)]
          /\ ret' = generate_bus_aware_manhattan_path(
                        start_pin, end_pin, extract_wire_structures(items))
    /\ pc' = "generate_bus_aware_manhattan_path"
    /\ UNCHANGED <<component_boundaries, clearance_nm, sys_stdout, router, kicad_wires>>

\* the caller takes the result; the engine keeps no state between calls
Return ==
    /\ pc # "idle"
    /\ pc' = "idle"
    /\ req' = NoReq
    /\ ret' = NoRet
    /\ UNCHANGED <<component_boundaries, clearance_nm, sys_stdout, router, kicad_wires>>

Next ==
    \/ ComputeBreakPoint
    \/ GetRoutingPreferences
    \/ GenerateManhattanPath
    \/ GenerateBusAwareManhattanPath
    \/ Return

Spec == Init /\ [][Next]_vars

----------------------------------------------------------------------------
(* The boundary manager as a state machine: a manager constructed with one *)
(* of the clearances, boundaries added symbol by symbol, paths checked     *)
(* against the boundaries stored so far.                                   *)

\* segment endpoints range over 0..MaxTrack steps in x and in y
MaxTrack == 7

NmSeg(segment) == Seg(Nm(segment.start), Nm(segment.end))

Paths ==
    LET EnginePaths ==
            LET \* the two-segment paths the engine routes between the corners of the area
                CornerPoints == {Pos(x, y) : x \in {0, MaxCoord}, y \in {0, MaxCoord}}
            IN
            {[segments |-> [i \in 1..2 |->
                 NmSeg(generate_manhattan_path(PinAt("P1", "1", a, o), PinAt("P2", "2", b, o))
                           .segments[i])]] :
               a \in CornerPoints, b \in CornerPoints, o \in {0, 1}}
    IN
    LET \* single segments of every direction, zero-length ones included
        SegmentPaths ==
            LET TrackPoints == {Nm(Pos(x, y)) : x \in 0..MaxTrack, y \in 0..MaxTrack}
            IN  {[segments |-> <<Seg(a, b)>>] : a \in TrackPoints, b \in TrackPoints}
    IN  SegmentPaths \cup EnginePaths

SymbolIds == {"U1", "U2"}

ExcludeSets == SUBSET SymbolIds

Symbols ==
    LET SymbolPinLists ==
            {<<>>,
             <<PinAt("U", "1", Nm(Pos(3, 3)), 0)>>,
             <<PinAt("U", "1", Nm(Pos(4, 3)), 0), PinAt("U", "2", Nm(Pos(5, 4)), 2),
               PinAt("U", "3", Nm(Pos(4, 4)), 2)>>}
    IN
    LET SymbolPosition == Nm(Pos(3, 3))
    IN
    {[id |-> id, position |-> SymbolPosition, pins |-> pins] :
        id \in SymbolIds, pins \in SymbolPinLists}

Clearances == {0, default_clearance_nm}

InitBoundary ==
    /\ pc = "idle"
    /\ req = NoReq
    /\ ret = NoRet
    /\ component_boundaries = NoBoundaries
    /\ clearance_nm \in Clearances
    /\ sys_stdout = Console
    /\ router = NoRouter
    /\ kicad_wires = <<>>

AddComponentBoundary ==
    /\ pc = "idle"
    /\ \E symbol \in Symbols :
          /\ req' = [op |-> "add_component_boundary", symbol |-> symbol]
          /\ component_boundaries' =
                 add_component_boundary(component_boundaries, symbol, "body_pins")
    /\ ret' = NoRet
    /\ pc' = "add_component_boundary"
    /\ UNCHANGED <<clearance_nm, sys_stdout, router, kicad_wires>>

CheckPathCollision ==
    /\ pc = "idle"
    /\ \E path \in Paths, exclude_pins \in ExcludeSets :
          /\ req' = [op |-> "check_path_collision", path |-> path,
                     exclude_pins |-> exclude_pins]
          /\ ret' = [raised |-> "none",
                     result |-> check_path_collision(component_boundaries, clearance_nm,
                                                     path, exclude_pins)]
    /\ pc' = "check_path_collision"
    /\ UNCHANGED <<component_boundaries, clearance_nm, sys_stdout, router, kicad_wires>>

\* the points of the region, detour and corridor queries
RegionPoints == {Nm(Pos(x, y)) : x \in {0, 2, 3, MaxTrack}, y \in {0, 2, 3, MaxTrack}}

FindComponentsInRegion ==
    /\ pc = "idle"
    /\ \E region_start \in RegionPoints, region_end \in RegionPoints :
          /\ req' = [op |-> "find_components_in_region",
                     region_start |-> region_start, region_end |-> region_end]
          /\ ret' = [raised |-> "none",
                     result |-> find_components_in_region(component_boundaries,
                                                          region_start, region_end)]
    /\ pc' = "find_components_in_region"
    /\ UNCHANGED <<component_boundaries, clearance_nm, sys_stdout, router, kicad_wires>>

\* the colliding box is one of the stored boxes
SuggestDetourPoints ==
    /\ pc = "idle"
    /\ \E start \in RegionPoints, end \in RegionPoints,
          i \in DOMAIN component_boundaries :
          /\ req' = [op |-> "suggest_detour_points", start |-> start, end |-> end,
                     colliding_bbox |-> component_boundaries[i]]
          /\ ret' = [raised |-> "none",
                     result |-> suggest_detour_points(clearance_nm, start, end,
                                                      component_boundaries[i])]
    /\ pc' = "suggest_detour_points"
    /\ UNCHANGED <<component_boundaries, clearance_nm, sys_stdout, router, kicad_wires>>

GetComponentClearanceZone ==
    /\ pc = "idle"
    /\ \E symbol_id \in SymbolIds :
          /\ req' = [op |-> "get_component_clearance_zone", symbol_id |-> symbol_id]
          /\ ret' = [raised |-> "none",
                     result |-> get_component_clearance_zone(component_boundaries,
                                                             clearance_nm, symbol_id)]
    /\ pc' = "get_component_clearance_zone"
    /\ UNCHANGED <<component_boundaries, clearance_nm, sys_stdout, router, kicad_wires>>

OptimizeRoutingCorridor ==
    /\ pc = "idle"
    /\ \E start \in RegionPoints, end \in RegionPoints :
          /\ req' = [op |-> "optimize_routing_corridor", start |-> start, end |-> end]
          /\ ret' = [raised |-> "none",
                     result |-> optimize_routing_corridor(component_boundaries,
                                                          clearance_nm, start, end)]
    /\ pc' = "optimize_routing_corridor"
    /\ UNCHANGED <<component_boundaries, clearance_nm, sys_stdout, router, kicad_wires>>

NextBoundary ==
    \/ AddComponentBoundary
    \/ CheckPathCollision
    \/ FindComponentsInRegion
    \/ SuggestDetourPoints
    \/ GetComponentClearanceZone
    \/ OptimizeRoutingCorridor
    \/ Return

SpecBoundary == InitBoundary /\ [][NextBoundary]_vars

----------------------------------------------------------------------------
(* smart_wire_tool.py: SmartWireTool.  The tool owns one routing engine    *)
(* and one ComponentBoundaryManager for its whole life.  A snapshot symbol *)
(* is a dictionary of get_symbol_positions, with its coordinates in steps; *)
(* has_reference tells whether the dictionary has its 'reference' key.     *)
(* The boundary manager is handed the same symbols in nanometres.          *)

NmSymbol(symbol) ==
    LET NmPin(pin) == [pin EXCEPT !.position = Nm(pin.position)]
    IN
    [id |-> symbol.id, position |-> Nm(symbol.position),
     pins |-> [i \in DOMAIN symbol.pins |-> NmPin(symbol.pins[i])]]

NmPath(path) == [segments |-> [i \in DOMAIN path.segments |-> NmSeg(path.segments[i])]]

\* mcp_symbol['reference'] raises KeyError on a dictionary without the key
convert_raises(mcp_symbol) == ~mcp_symbol.has_reference

\* the Symbol built from a dictionary; the dictionary is only read
convert_mcp_symbol_to_routing_symbol(mcp_symbol) ==
    [id |-> mcp_symbol.id, position |-> mcp_symbol.position, pins |-> mcp_symbol.pins]

\* one wire segment per path segment, in nanometres
create_smart_wire_segments(path) ==
    [i \in DOMAIN path.segments |->
        [start_point |-> Nm(path.segments[i].start),
         end_point |-> Nm(path.segments[i].end),
         width |-> 0, segment_index |-> i - 1, routing_mode |-> path.mode]]

route_wire_with_avoidance(start_pin, end_pin) == generate_manhattan_path(start_pin, end_pin)

\* (None, None)
PinNotFound == [raised |-> "none", pin |-> <<>>, symbol |-> <<>>]

\* the first symbol with the id decides: its pin with the number, or
\* nothing; [raised, pin, symbol] with pin and symbol <<>> for None
RECURSIVE find_pin_in_symbols(_, _, _)
find_pin_in_symbols(symbol_id, pin_number, symbols_data) ==
    IF symbols_data = <<>> THEN PinNotFound
    ELSE IF Head(symbols_data).id = symbol_id
    THEN IF convert_raises(Head(symbols_data))
         THEN [raised |-> "KeyError", pin |-> <<>>, symbol |-> <<>>]
         ELSE LET symbol == convert_mcp_symbol_to_routing_symbol(Head(symbols_data))
                  found == SelectSeq(symbol.pins, LAMBDA pin : pin.number = pin_number)
              IN  IF found # <<>>
                  THEN [raised |-> "none", pin |-> <<found[1]>>, symbol |-> <<symbol>>]
                  ELSE PinNotFound
    ELSE find_pin_in_symbols(symbol_id, pin_number, Tail(symbols_data))

\* the loop that converts every symbol of the snapshot and registers its
\* box; a conversion that raises leaves the boxes registered before it
RECURSIVE register_symbols(_, _)
register_symbols(boundaries, symbols_data) ==
    IF symbols_data = <<>> THEN [raised |-> "none", boundaries |-> boundaries]
    ELSE IF convert_raises(Head(symbols_data))
    THEN [raised |-> "KeyError", boundaries |-> boundaries]
    ELSE register_symbols(
             add_component_boundary(
                 boundaries,
                 NmSymbol(convert_mcp_symbol_to_routing_symbol(Head(symbols_data))),
                 "body_pins"),
             Tail(symbols_data))

\* mode_map.get(routing_mode, RoutingMode.MANHATTAN)
routing_mode_enum(routing_mode) ==
    IF routing_mode \in {"manhattan", "direct", "45_degree"}
    THEN routing_mode ELSE "manhattan"

\* schematic_items is <<>> for None and <<dictionary>> otherwise
NoItems == <<>>

\* self._extract_wire_structures(schematic_items) if schematic_items else []
existing_wires_of(schematic_items) ==
    IF schematic_items = NoItems THEN <<>>
    ELSE extract_wire_structures(schematic_items[1].items)

generate_routing_recommendations(path, collision_result, corridor_analysis) ==
    LET \* path.total_length > 50000000 nm: the length is above 78 steps and 127
        \* times the length is above 10000 steps
        longer_than_50mm(total_length) ==
            /\ RealLess(RealOfInt(78), total_length)
            /\ RealLess(RealOfInt(10000), RealScale(total_length, 127))
    IN
    (IF longer_than_50mm(path.total_length) THEN <<<<"shorter_path">>>> ELSE <<>>)
    \o (IF collision_result.has_collision
        THEN <<<<"collision", Cardinality(collision_result.colliding_components)>>,
               <<"placement_or_detour">>>>
        ELSE <<>>)
    \o (IF 10 * corridor_analysis.obstacle_density[1]
              > 3 * corridor_analysis.obstacle_density[2]
        THEN <<<<"high_density">>>> ELSE <<>>)
    \o (IF path.mode = "manhattan" THEN <<<<"manhattan_90_degree">>>>
        ELSE IF path.mode = "direct" THEN <<<<"direct_minimal_length">>>> ELSE <<>>)
    \o <<<<"professional_standards">>,
         <<"clearance", corridor_analysis.clearance_required_nm>>>>

\* the failure dictionary; error is the message, as its pieces
Failure(error, routing_mode) ==
    [success |-> FALSE, error |-> error, routing_mode |-> routing_mode]

\* f"Smart routing failed: {str(e)}", the exception standing for its text
RoutingFailed(exc, routing_mode) == Failure(<<"Smart routing failed: ", exc>>, routing_mode)

\* the io.StringIO a call binds sys.stdout to while the bus-aware engine
\* runs; the model tells the console from a capture, not one call's
\* capture from another's
DebugCapture == "debug_capture"

\* the routing step: [raised, path, stdout], stdout being the binding of
\* sys.stdout afterwards.  The restore is skipped when the engine raises.
route_path(routing_mode, start_pin, end_pin, existing_wires, stdout, capture) ==
    LET bus_aware(routed) ==
            IF routed.raised # "none"
            THEN [raised |-> routed.raised, path |-> <<>>, stdout |-> capture,
                  algorithm |-> "none"]
            ELSE [raised |-> "none", path |-> routed.path, stdout |-> stdout,
                  algorithm |-> "bus_aware_manhattan"]
    IN  IF routing_mode_enum(routing_mode) = "manhattan"
        THEN IF existing_wires # <<>>
             THEN bus_aware(generate_bus_aware_manhattan_path(start_pin, end_pin,
                                                              existing_wires))
             ELSE [raised |-> "none",
                   path |-> <<generate_manhattan_path(start_pin, end_pin)>>,
                   stdout |-> stdout, algorithm |-> "direct_manhattan"]
        ELSE [raised |-> "none", path |-> <<route_wire_with_avoidance(start_pin, end_pin)>>,
              stdout |-> stdout, algorithm |-> "none"]

\* the success dictionary
routing_result(boundaries, clearance, args, start_pin, end_pin, routed, existing_wires) ==
    LET result(routing_path, collision_result, corridor_analysis) ==
            [success |-> TRUE,
             routing_analysis |->
                 [mode |-> args.routing_mode,
                  total_length_nm |-> routing_path.total_length,
                  quality_score |-> routing_path.quality_score,
                  segment_count |-> Len(routing_path.segments),
                  has_collision |-> collision_result.has_collision,
                  colliding_components |-> collision_result.colliding_components,
                  corridor_analysis |-> corridor_analysis,
                  bus_aware_debug |->
                      [schematic_items_received |-> args.schematic_items # NoItems,
                       existing_wires_count |-> Len(existing_wires),
                       routing_algorithm_used |-> routed.algorithm]],
             wire_segments |-> create_smart_wire_segments(routing_path),
             pin_info |->
                 [start_pin |-> [pin_number |-> start_pin.number,
                                 position |-> Nm(start_pin.position)],
                  end_pin |-> [pin_number |-> end_pin.number,
                               position |-> Nm(end_pin.position)]],
             routing_recommendations |->
                 generate_routing_recommendations(routing_path, collision_result,
                                                  corridor_analysis)]
    IN  result(routed.path[1],
               check_path_collision(boundaries, clearance, NmPath(routed.path[1]),
                                    {args.start_symbol_id, args.end_symbol_id}),
               optimize_routing_corridor(boundaries, clearance,
                                         Nm(start_pin.position), Nm(end_pin.position)))

\* mutant: the end pin is looked at before the start pin
pin_not_found_end_first(start, end, args) ==
    IF end.pin = <<>>
    THEN <<Failure(<<"End pin ", args.end_pin_number,
                     " not found in symbol ", args.end_symbol_id>>, args.routing_mode)>>
    ELSE IF start.pin = <<>>
    THEN <<Failure(<<"Start pin ", args.start_pin_number,
                     " not found in symbol ", args.start_symbol_id>>, args.routing_mode)>>
    ELSE <<>>

\* `if not start_pin` and `if not end_pin`: <<failure>>, or <<>> when both
\* lookups found their pin
pin_not_found(start, end, args) ==
    IF start.pin = <<>>
    THEN <<Failure(<<"Start pin ", args.start_pin_number,
                     " not found in symbol ", args.start_symbol_id>>, args.routing_mode)>>
    ELSE IF end.pin = <<>>
    THEN <<Failure(<<"End pin ", args.end_pin_number,
                     " not found in symbol ", args.end_symbol_id>>, args.routing_mode)>>
    ELSE <<>>

\* the returns before the snapshot is registered: <<failure>>, or <<>> when
\* symbols_data is usable and both lookups found their pin
lookup_failure(args) ==
    LET start == find_pin_in_symbols(args.start_symbol_id, args.start_pin_number,
                                     args.symbols_data.symbols)
        end == find_pin_in_symbols(args.end_symbol_id, args.end_pin_number,
                                   args.symbols_data.symbols)
    IN  IF args.symbols_data.format \notin {"dict", "list"}
        THEN <<Failure(<<"Invalid symbols_data format">>, args.routing_mode)>>
        ELSE IF start.raised # "none"
        THEN <<RoutingFailed(start.raised, args.routing_mode)>>
        ELSE IF end.raised # "none"
        THEN <<RoutingFailed(end.raised, args.routing_mode)>>
        ELSE pin_not_found(start, end, args)

\* one call: [result, boundaries, stdout], the dictionary returned and the
\* boundary store and sys.stdout binding the call leaves behind.  args is
\* [start_symbol_id, start_pin_number, end_symbol_id, end_pin_number,
\* symbols_data, routing_mode, schematic_items]; symbols_data is
\* [format, symbols] with format "dict", "list" or anything else.
smart_draw_wire_between_pins(boundaries, clearance, stdout, args) ==
    LET actual_symbols == args.symbols_data.symbols
        start == find_pin_in_symbols(args.start_symbol_id, args.start_pin_number,
                                     actual_symbols)
        end == find_pin_in_symbols(args.end_symbol_id, args.end_pin_number,
                                   actual_symbols)
        failed == lookup_failure(args)
        registered == register_symbols(boundaries, actual_symbols)
        existing_wires == existing_wires_of(args.schematic_items)
        route(routed) ==
            IF routed.raised # "none"
            THEN [result |-> RoutingFailed(routed.raised, args.routing_mode),
                  boundaries |-> registered.boundaries, stdout |-> routed.stdout]
            ELSE [result |-> routing_result(registered.boundaries, clearance, args,
                                            start.pin[1], end.pin[1], routed,
                                            existing_wires),
                  boundaries |-> registered.boundaries, stdout |-> routed.stdout]
    IN  IF failed # <<>>
        THEN [result |-> failed[1], boundaries |-> boundaries, stdout |-> stdout]
        ELSE IF registered.raised # "none"
        THEN [result |-> RoutingFailed(registered.raised, args.routing_mode),
              boundaries |-> registered.boundaries, stdout |-> stdout]
        ELSE route(route_path(args.routing_mode, start.pin[1], end.pin[1],
                              existing_wires, stdout, DebugCapture))

----------------------------------------------------------------------------
(* SmartWireTool.analyze_routing_options.                                  *)

routing_modes == <<"manhattan", "direct", "45_degree">>

\* the entry of routing_options for one result
routing_option(result) ==
    IF result.success
    THEN [length_nm |-> result.routing_analysis.total_length_nm,
          quality_score |-> result.routing_analysis.quality_score,
          has_collision |-> result.routing_analysis.has_collision,
          segment_count |-> result.routing_analysis.segment_count]
    ELSE [error |-> result.error]

is_valid_option(option) == "error" \notin DOMAIN option

\* collision_penalty + length_nm - quality_score * 1000, kept as the whole
\* part and the fraction 1000 * num / den that is subtracted from it
score_option(option_data) ==
    LET \* the length of a path of axis-aligned legs, in nanometres
        whole_length_nm(total_length) == (ISqrt(total_length[1]) + ISqrt(total_length[2])) * Step
    IN
    [whole |-> (IF option_data.has_collision THEN 1000000 ELSE 0)
               + whole_length_nm(option_data.length_nm),
     num |-> option_data.quality_score.num * 1000,
     den |-> whole_length_nm(option_data.quality_score.len) + 1]

\* score a < score b, in exact arithmetic
score_less(a, b) ==
    LET \* r2 / d2 < r1 / d1, for 0 <= r1 < d1 and 0 <= r2 < d2
        fraction_less(r2, d2, r1, d1) ==
            LET scaled == MulDivMod(r1, d2, d1)
            IN  r2 < scaled[1] \/ (r2 = scaled[1] /\ scaled[2] > 0)
    IN
    LET k == (a.whole - b.whole) - (a.num \div a.den - b.num \div b.den)
    IN  \/ k < 0
        \/ /\ k = 0
           /\ fraction_less(b.num % b.den, b.den, a.num % a.den, a.den)

\* mutant: a later key with the same score replaces the best one
replaces_best_on_tie(candidate, best) ==
    ~score_less(score_option(best), score_option(candidate))

\* min(..., key=...) keeps the first key whose score no later key beats
replaces_best(candidate, best) ==
    score_less(score_option(candidate), score_option(best))

\* min over the valid keys in their order; best is <<>> before the first
RECURSIVE min_by_score(_, _, _)
min_by_score(keys, routing_options, best) ==
    IF keys = <<>> THEN best
    ELSE IF ~is_valid_option(routing_options[Head(keys)])
    THEN min_by_score(Tail(keys), routing_options, best)
    ELSE IF best = <<>>
            \/ replaces_best(routing_options[Head(keys)], routing_options[best[1]])
    THEN min_by_score(Tail(keys), routing_options, <<Head(keys)>>)
    ELSE min_by_score(Tail(keys), routing_options, best)

\* the arguments of the call made for one mode
mode_call_args(args, mode) ==
    [start_symbol_id |-> args.start_symbol_id,
     start_pin_number |-> args.start_pin_number,
     end_symbol_id |-> args.end_symbol_id,
     end_pin_number |-> args.end_pin_number,
     symbols_data |-> args.symbols_data,
     routing_mode |-> mode, schematic_items |-> NoItems]

\* the dictionary returned, from the results of the three calls
options_result(results) ==
    LET routing_options ==
            [mode \in {routing_modes[i] : i \in DOMAIN routing_modes} |->
                routing_option(
                    results[CHOOSE i \in DOMAIN routing_modes : routing_modes[i] = mode])]
        best_option == min_by_score(routing_modes, routing_options, <<>>)
    IN  [routing_options |-> routing_options,
         recommended_mode |-> IF best_option = <<>> THEN "None" ELSE best_option[1],
         analysis |->
             [total_options |-> Len(routing_modes),
              valid_options |->
                  Cardinality({mode \in DOMAIN routing_options :
                                  is_valid_option(routing_options[mode])})]]

\* args is [start_symbol_id, start_pin_number, end_symbol_id,
\* end_pin_number, symbols_data]; the three calls run one after another on
\* the store and the sys.stdout binding the one before left
RECURSIVE analyze_routing_options_loop(_, _, _, _, _, _)
analyze_routing_options_loop(modes, results, boundaries, clearance, stdout, args) ==
    LET continue(call) ==
            analyze_routing_options_loop(Tail(modes), Append(results, call.result),
                                         call.boundaries, clearance, call.stdout, args)
    IN  IF modes = <<>>
        THEN [result |-> options_result(results), boundaries |-> boundaries,
              stdout |-> stdout]
        ELSE continue(smart_draw_wire_between_pins(boundaries, clearance, stdout,
                                                   mode_call_args(args, Head(modes))))

analyze_routing_options(boundaries, clearance, stdout, args) ==
    analyze_routing_options_loop(routing_modes, <<>>, boundaries, clearance, stdout, args)

----------------------------------------------------------------------------
(* The tool as a state machine: calls of smart_draw_wire_between_pins and  *)
(* analyze_routing_options, one at a time, on one SmartWireTool.           *)

\* the end pin is MaxReach steps east of the start pin
MaxReach == 4

U1 ==
    [id |-> "U1", has_reference |-> TRUE, position |-> Pos(0, 0),
     pins |-> <<PinAt("U1-1", "1", Pos(0, 0), 0), PinAt("U1-2", "2", Pos(0, 2), 0)>>]

U2NoReference ==
    [id |-> "U2", has_reference |-> FALSE, position |-> Pos(MaxReach, 0),
     pins |-> <<PinAt("U2-1", "1", Pos(MaxReach, 0), 2)>>]

\* the list itself, the response of get_symbol_positions, or something else
SymbolsData ==
    LET SymbolLists ==
            LET \* dictionaries without the 'reference' key
                U4 == [id |-> "U4", has_reference |-> FALSE, position |-> Pos(2, 2), pins |-> <<>>]
            IN
            LET \* U3 between the pins of U1 and U2, or away from them
                U3s ==
                    {[id |-> "U3", has_reference |-> TRUE, position |-> Pos(2, 0),
                      pins |-> <<PinAt("U3-1", "1", Pos(2, 0), 1)>>],
                     [id |-> "U3", has_reference |-> TRUE, position |-> Pos(2, MaxReach + 2),
                      pins |-> <<>>]}
            IN
            LET \* U2 with its pin level with U1's pin 1, above it, or on top of it
                U2s ==
                    {[id |-> "U2", has_reference |-> TRUE, position |-> p,
                      pins |-> <<PinAt("U2-1", "1", p, 2)>>] :
                        p \in {Pos(MaxReach, 0), Pos(MaxReach, 2), Pos(0, 0)}}
            IN
            {<<>>, <<U1>>, <<U1, U2NoReference>>}
            \cup {<<U1, u2>> : u2 \in U2s}
            \cup {<<u2, U1>> : u2 \in U2s}
            \cup {<<U1, u2, u3>> : u2 \in U2s, u3 \in U3s}
            \cup {<<U1, u2, U4>> : u2 \in U2s}
            \cup {<<U4, U1, u2>> : u2 \in U2s}
    IN  {[format |-> f, symbols |-> s] : f \in {"list", "dict", "str"}, s \in SymbolLists}

PinArgs ==
    {[start_symbol_id |-> s, start_pin_number |-> sp,
      end_symbol_id |-> e, end_pin_number |-> ep, symbols_data |-> d] :
        s \in {"U1", "U9"}, sp \in {"1", "9"}, e \in {"U2", "U9"}, ep \in {"1", "9"},
        d \in SymbolsData}

DrawArgs ==
    LET \* no items, an empty item list, a bus between the pins, a short wire
        SchematicItems ==
            {NoItems,
             <<[items |-> <<>>]>>,
             <<[items |-> <<RawWire("HB", Pos(-2, 1), Pos(MaxReach + 4, 1), "WIRE")>>]>>,
             <<[items |-> <<RawWire("S4", Pos(0, 1), Pos(MaxReach, 1), "WIRE")>>]>>}
    IN
    {pins @@ [routing_mode |-> mode, schematic_items |-> items] :
        pins \in PinArgs, mode \in RoutingModes, items \in SchematicItems}

\* symbols_data in ret is the caller's object after the call: the call
\* only reads it
SmartDrawWireBetweenPins ==
    /\ pc = "idle"
    /\ \E args \in DrawArgs :
          LET returns(call) ==
                  /\ req' = [op |-> "smart_draw_wire_between_pins", args |-> args]
                  /\ ret' = [raised |-> "none", result |-> call.result,
                             symbols_data |-> args.symbols_data]
                  /\ component_boundaries' = call.boundaries
                  /\ sys_stdout' = call.stdout
          IN  returns(smart_draw_wire_between_pins(component_boundaries, clearance_nm,
                                           sys_stdout, args))
    /\ pc' = "smart_draw_wire_between_pins"
    /\ UNCHANGED <<clearance_nm, router, kicad_wires>>

AnalyzeRoutingOptions ==
    /\ pc = "idle"
    /\ \E args \in PinArgs :
          LET returns(call) ==
                  /\ req' = [op |-> "analyze_routing_options", args |-> args]
                  /\ ret' = [raised |-> "none", result |-> call.result,
                             symbols_data |-> args.symbols_data]
                  /\ component_boundaries' = call.boundaries
                  /\ sys_stdout' = call.stdout
          IN  returns(analyze_routing_options(component_boundaries, clearance_nm,
                                          sys_stdout, args))
    /\ pc' = "analyze_routing_options"
    /\ UNCHANGED <<clearance_nm, router, kicad_wires>>

NextTool ==
    \/ SmartDrawWireBetweenPins
    \/ AnalyzeRoutingOptions
    \/ Return

\* SmartWireTool(): an empty store with the default clearance
SpecTool == Init /\ [][NextTool]_vars

----------------------------------------------------------------------------
(* Two invocations on one tool, each in its own thread.  Every statement   *)
(* of smart_draw_wire_between_pins that reads or writes the boundary store *)
(* or sys.stdout is a step of its thread, and the steps of the two threads *)
(* interleave.  pc, req and ret hold one entry per thread; ret[t] holds    *)
(* the thread's local variables and, at the end, its result.               *)

Threads == {1, 2}

\* the io.StringIO created by the call of thread t
debug_capture(t) == IF t = 1 THEN "debug_capture_1" ELSE "debug_capture_2"

\* route generation or routing-option evaluation
Invocations ==
    LET ThreadPinArgs ==
            LET \* each thread has its own snapshot
                ThreadSymbolLists ==
                    {<<U1>>,
                     <<U1, U2NoReference>>,
                     <<U1, [U2NoReference EXCEPT !.has_reference = TRUE]>>,
                     <<[U2NoReference EXCEPT !.has_reference = TRUE, !.position = Pos(MaxReach, 2),
                                             !.pins[1].position = Pos(MaxReach, 2)], U1>>,
                     <<U1, [U2NoReference EXCEPT !.has_reference = TRUE, !.position = Pos(0, 0),
                                                 !.pins[1].position = Pos(0, 0)]>>,
                     <<U1, [U2NoReference EXCEPT !.has_reference = TRUE],
                       [id |-> "U3", has_reference |-> TRUE, position |-> Pos(2, 0),
                        pins |-> <<PinAt("U3-1", "1", Pos(2, 0), 1)>>]>>}
            IN
            {[start_symbol_id |-> "U1", start_pin_number |-> "1",
              end_symbol_id |-> "U2", end_pin_number |-> "1",
              symbols_data |-> [format |-> "list", symbols |-> s]] : s \in ThreadSymbolLists}
    IN
    {[kind |-> "smart_draw_wire_between_pins",
      args |-> pins @@ [routing_mode |-> mode, schematic_items |-> items]] :
        pins \in ThreadPinArgs, mode \in {"manhattan", "direct"},
        items \in {NoItems,
                   <<[items |-> <<RawWire("HB", Pos(-2, 1), Pos(MaxReach + 4, 1),
                                          "WIRE")>>]>>}}
    \cup {[kind |-> "analyze_routing_options", args |-> pins] : pins \in ThreadPinArgs}

\* the locals of a call that has not begun
NoLocals ==
    [results |-> <<>>, registered |-> 0, old_stdout |-> "unbound", routed |-> <<>>,
     result |-> <<>>]

\* the arguments of the call thread t is in
CurrentArgs(t) ==
    IF req[t].kind = "analyze_routing_options"
    THEN mode_call_args(req[t].args, routing_modes[Len(ret[t].results) + 1])
    ELSE req[t].args

CurrentStartPin(t) ==
    find_pin_in_symbols(CurrentArgs(t).start_symbol_id, CurrentArgs(t).start_pin_number,
                        CurrentArgs(t).symbols_data.symbols).pin[1]

CurrentEndPin(t) ==
    find_pin_in_symbols(CurrentArgs(t).end_symbol_id, CurrentArgs(t).end_pin_number,
                        CurrentArgs(t).symbols_data.symbols).pin[1]

\* the call of thread t returns result: the invocation is over, or the next
\* mode of analyze_routing_options begins
CallReturns(t, result) ==
    LET \* the calls of smart_draw_wire_between_pins an invocation makes
        CallCount(invocation) ==
            IF invocation.kind = "analyze_routing_options" THEN Len(routing_modes) ELSE 1
    IN
    LET results == Append(ret[t].results, result)
        over == Len(results) = CallCount(req[t])
        final == IF req[t].kind = "analyze_routing_options"
                 THEN options_result(results) ELSE result
    IN  /\ pc' = [pc EXCEPT ![t] = IF over THEN "done" ELSE "lookup"]
        /\ ret' = [ret EXCEPT ![t] = [NoLocals EXCEPT !.results = results,
                                                      !.result = IF over THEN <<final>>
                                                                 ELSE <<>>]]

InitThreads ==
    /\ pc = [t \in Threads |-> "idle"]
    /\ req = [t \in Threads |-> NoReq]
    /\ ret = [t \in Threads |-> NoLocals]
    /\ component_boundaries = NoBoundaries
    /\ clearance_nm = default_clearance_nm
    /\ sys_stdout = Console
    /\ router = NoRouter
    /\ kicad_wires = <<>>

Invoke(t) ==
    /\ pc[t] = "idle"
    /\ \E invocation \in Invocations : req' = [req EXCEPT ![t] = invocation]
    /\ pc' = [pc EXCEPT ![t] = "lookup"]
    /\ UNCHANGED <<ret, component_boundaries, clearance_nm, sys_stdout, router, kicad_wires>>

\* the format test, the two lookups and the two not-found returns
Lookup(t) ==
    /\ pc[t] = "lookup"
    /\ IF lookup_failure(CurrentArgs(t)) # <<>>
       THEN CallReturns(t, lookup_failure(CurrentArgs(t))[1])
       ELSE /\ pc' = [pc EXCEPT ![t] = "register"]
            /\ UNCHANGED ret
    /\ UNCHANGED <<req, component_boundaries, clearance_nm, sys_stdout, router, kicad_wires>>

\* one turn of the loop over actual_symbols, or its end
Register(t) ==
    /\ pc[t] = "register"
    /\ LET symbols == CurrentArgs(t).symbols_data.symbols
           n == ret[t].registered
       IN  IF n = Len(symbols)
           THEN /\ pc' = [pc EXCEPT ![t] =
                             IF /\ routing_mode_enum(CurrentArgs(t).routing_mode)
                                       = "manhattan"
                                /\ existing_wires_of(CurrentArgs(t).schematic_items) # <<>>
                             THEN "save_stdout" ELSE "route"]
                /\ UNCHANGED <<ret, component_boundaries>>
           ELSE IF convert_raises(symbols[n + 1])
           THEN /\ CallReturns(t, RoutingFailed("KeyError", CurrentArgs(t).routing_mode))
                /\ UNCHANGED component_boundaries
           ELSE /\ component_boundaries' =
                       add_component_boundary(
                           component_boundaries,
                           NmSymbol(convert_mcp_symbol_to_routing_symbol(symbols[n + 1])),
                           "body_pins")
                /\ ret' = [ret EXCEPT ![t].registered = n + 1]
                /\ UNCHANGED pc
    /\ UNCHANGED <<req, clearance_nm, sys_stdout, router, kicad_wires>>

\* old_stdout = sys.stdout
SaveStdout(t) ==
    /\ pc[t] = "save_stdout"
    /\ ret' = [ret EXCEPT ![t].old_stdout = sys_stdout]
    /\ pc' = [pc EXCEPT ![t] = "bind_capture"]
    /\ UNCHANGED <<req, component_boundaries, clearance_nm, sys_stdout, router, kicad_wires>>

\* sys.stdout = debug_capture = io.StringIO()
BindCapture(t) ==
    /\ pc[t] = "bind_capture"
    /\ sys_stdout' = debug_capture(t)
    /\ pc' = [pc EXCEPT ![t] = "route"]
    /\ UNCHANGED <<req, ret, component_boundaries, clearance_nm, router, kicad_wires>>

\* the call of the engine; when it raises, the call returns its failure
\* with sys.stdout as it is
Route(t) ==
    /\ pc[t] = "route"
    /\ LET returns(routed) ==
               IF routed.raised # "none"
               THEN CallReturns(t, RoutingFailed(routed.raised,
                                                 CurrentArgs(t).routing_mode))
               ELSE /\ ret' = [ret EXCEPT ![t].routed = <<routed>>]
                    /\ pc' = [pc EXCEPT ![t] =
                                 IF routed.algorithm = "bus_aware_manhattan"
                                 THEN "restore_stdout" ELSE "check"]
       IN  returns(route_path(CurrentArgs(t).routing_mode, CurrentStartPin(t),
                              CurrentEndPin(t),
                              existing_wires_of(CurrentArgs(t).schematic_items),
                              sys_stdout, sys_stdout))
    /\ UNCHANGED <<req, component_boundaries, clearance_nm, sys_stdout, router, kicad_wires>>

\* sys.stdout = old_stdout
RestoreStdout(t) ==
    /\ pc[t] = "restore_stdout"
    /\ sys_stdout' = ret[t].old_stdout
    /\ pc' = [pc EXCEPT ![t] = "check"]
    /\ UNCHANGED <<req, ret, component_boundaries, clearance_nm, router, kicad_wires>>

\* check_path_collision, optimize_routing_corridor and the result
Check(t) ==
    /\ pc[t] = "check"
    /\ CallReturns(t, routing_result(component_boundaries, clearance_nm, CurrentArgs(t),
                                     CurrentStartPin(t), CurrentEndPin(t),
                                     ret[t].routed[1],
                                     existing_wires_of(CurrentArgs(t).schematic_items)))
    /\ UNCHANGED <<req, component_boundaries, clearance_nm, sys_stdout, router, kicad_wires>>

NextThreads ==
    \E t \in Threads :
        \/ Invoke(t)
        \/ Lookup(t)
        \/ Register(t)
        \/ SaveStdout(t)
        \/ BindCapture(t)
        \/ Route(t)
        \/ RestoreStdout(t)
        \/ Check(t)

SpecThreads == InitThreads /\ [][NextThreads]_vars

----------------------------------------------------------------------------
(* Claims about the routing engine, checked under Spec.                    *)

ReturnedPath == ret.path[1]

IsPathCall ==
    /\ pc \in {"generate_manhattan_path", "generate_bus_aware_manhattan_path"}
    /\ ret.raised = "none"

ReqStart == get_connection_point(req.start_pin)

ReqEnd == get_connection_point(req.end_pin)

\* (D - b) / D > 1 / den for the integer length D = direct and the length b
ImprovedByMoreThan(b, direct, den) ==
    /\ direct > 0
    /\ RootSumLessInt(den * den * b[1], den * den * b[2], (den - 1) * direct)

\* the acceptance rule of C1, for the bus path's length b and the direct
\* path's length |dx| + |dy|
C1_Accepts(b, direct) ==
    \/ ImprovedByMoreThan(b, direct, 10)
    \/ /\ ImprovedByMoreThan(b, direct, 20)
       /\ RootSumLessInt(b[1], b[2], direct)

\* the shortest bus-based path B of a request, with the request's pins
C1_BusPath ==
    [generate_bus_routing_path(ReqStart, ReqEnd,
            analyze_bus_structures(req.existing_wires))[1]
        EXCEPT !.start_pin = req.start_pin, !.end_pin = req.end_pin]

C1_Rule ==
    LET buses == analyze_bus_structures(req.existing_wires)
        D == generate_manhattan_path(req.start_pin, req.end_pin)
    IN  IF /\ buses # <<>>
           /\ C1_Accepts(C1_BusPath.total_length,
                         manhattan_distance_to(ReqStart, ReqEnd))
        THEN ret = Returned(C1_BusPath)
        ELSE ret = Returned(D)

\* C1: generate_bus_aware_manhattan_path returns the bus-based path if and
\* only if a bus candidate exists and the shortest bus-based path B improves
\* on the direct path D by more than 10%, or by more than 5% with B shorter
\* than D; in every other case it returns the direct path D.
C1_BusPathIffImproved ==
    pc = "generate_bus_aware_manhattan_path" => C1_Rule

\* The rule of C1 on the requests whose two connection points differ.
C1_RuleWhenPinsApart ==
    (pc = "generate_bus_aware_manhattan_path" /\ ReqStart # ReqEnd) => C1_Rule

\* a request with coinciding connection points and a bus candidate
C1_CoincidentWithBus ==
    /\ pc = "generate_bus_aware_manhattan_path"
    /\ ReqStart = ReqEnd
    /\ analyze_bus_structures(req.existing_wires) # <<>>

Contiguous(segments) ==
    \A i \in 1..(Len(segments) - 1) : segments[i].end = segments[i + 1].start

\* C2: every RoutingPath returned by generate_manhattan_path or
\* generate_bus_aware_manhattan_path has at least one segment, consecutive
\* segments are contiguous, the first starts at the start pin's connection
\* point, the last ends at the end pin's connection point, and start_pin
\* and end_pin are the pins passed in.
C2_PathConnectsPins ==
    IsPathCall =>
        /\ Len(ReturnedPath.segments) >= 1
        /\ Contiguous(ReturnedPath.segments)
        /\ ReturnedPath.segments[1].start = ReqStart
        /\ ReturnedPath.segments[Len(ReturnedPath.segments)].end = ReqEnd
        /\ ReturnedPath.start_pin = req.start_pin
        /\ ReturnedPath.end_pin = req.end_pin

\* a path routed through a bus, with an L-bend and a final leg, was returned
C2_Witness ==
    /\ IsPathCall
    /\ "bus_used" \in DOMAIN ReturnedPath
    /\ Len(ReturnedPath.segments) = 3

AxisAligned(seg) == seg.start.x = seg.end.x \/ seg.start.y = seg.end.y

\* C3: every segment of every Manhattan-mode path returned by
\* generate_manhattan_path or generate_bus_aware_manhattan_path, a path
\* routed through a bus included, is horizontal or vertical.
C3_SegmentsAxisAligned ==
    (IsPathCall /\ ReturnedPath.mode = "manhattan") =>
        \A i \in 1..Len(ReturnedPath.segments) : AxisAligned(ReturnedPath.segments[i])

\* C4: for every pair of pin positions and orientations, the path returned
\* by generate_manhattan_path has total_length |dx| + |dy|.
C4_ManhattanLength ==
    pc = "generate_manhattan_path" =>
        RealEq(ReturnedPath.total_length,
               RealOfInt(Abs(ReqEnd.x - ReqStart.x) + Abs(ReqEnd.y - ReqStart.y)))

\* a path between pins that differ on both axes was generated
C4_Witness ==
    /\ pc = "generate_manhattan_path"
    /\ ReqStart.x # ReqEnd.x
    /\ ReqStart.y # ReqEnd.y

\* C5: when the two connection points share an x or a y coordinate,
\* generate_manhattan_path returns exactly one segment, from start to end,
\* with total_length equal to the distance between the points.
C5_AlignedPinsOneSegment ==
    (pc = "generate_manhattan_path" /\ (ReqStart.x = ReqEnd.x \/ ReqStart.y = ReqEnd.y)) =>
        /\ ReturnedPath.segments = <<Seg(ReqStart, ReqEnd)>>
        /\ RealEq(ReturnedPath.total_length, <<DistSq(ReqStart, ReqEnd), 0>>)

\* aligned pins at different points were routed
C5_Witness ==
    /\ pc = "generate_manhattan_path"
    /\ ReqStart.y = ReqEnd.y
    /\ ReqStart.x # ReqEnd.x

\* C6: compute_break_point returns end in Direct mode; in Manhattan mode
\* (start.x, end.y) when prefer_vertical is set, otherwise (end.x, start.y)
\* when prefer_horizontal is set, otherwise (start.x, end.y) if |dx| < |dy|
\* and (end.x, start.y) if |dx| >= |dy|; with both flags set one of them
\* (prefer_vertical) is honored.
C6_BreakPoint ==
    pc = "compute_break_point" =>
        LET vertical_first == Pos(req.start.x, req.end.y)
            horizontal_first == Pos(req.end.x, req.start.y)
        IN  /\ req.mode = "direct" => ret = req.end
            /\ req.mode = "manhattan" =>
                   ret = IF req.prefer_vertical THEN vertical_first
                         ELSE IF req.prefer_horizontal THEN horizontal_first
                         ELSE IF Abs(req.end.x - req.start.x) < Abs(req.end.y - req.start.y)
                              THEN vertical_first
                              ELSE horizontal_first

\* Manhattan mode with both flags set, where the two break points differ
C6_Witness ==
    /\ pc = "compute_break_point"
    /\ req.mode = "manhattan"
    /\ req.prefer_vertical /\ req.prefer_horizontal
    /\ req.start.x # req.end.x
    /\ req.start.y # req.end.y

\* C7: _get_routing_preferences prefers horizontal if the pins' y differ by
\* less than 1,270,000 nm; else vertical if their x differ by less than
\* 1,270,000 nm; else vertical if both pins face East/West; else horizontal
\* if both face North/South; else nothing.  It never sets both.
C7_Preferences ==
    pc = "_get_routing_preferences" =>
        LET s == req.start_pin
            e == req.end_pin
            east_west(p) == p.orientation = 0 \/ p.orientation = 2
            north_south(p) == p.orientation = 1 \/ p.orientation = 3
            expected ==
                IF Abs(s.position.y - e.position.y) * Step < 1270000 THEN "horizontal"
                ELSE IF Abs(s.position.x - e.position.x) * Step < 1270000 THEN "vertical"
                ELSE IF east_west(s) /\ east_west(e) THEN "vertical"
                ELSE IF north_south(s) /\ north_south(e) THEN "horizontal"
                ELSE "none"
        IN  /\ ret = <<expected = "horizontal", expected = "vertical">>
            /\ ret # <<TRUE, TRUE>>

\* pins within a grid unit on both axes, facing East/West: the first rule
\* has to win over the second and the third
C7_Witness ==
    /\ pc = "_get_routing_preferences"
    /\ Abs(req.start_pin.position.y - req.end_pin.position.y) = 1
    /\ Abs(req.start_pin.position.x - req.end_pin.position.x) = 1
    /\ req.start_pin.orientation = 0
    /\ req.end_pin.orientation = 2

\* the two legs start -> waypoint -> end of a compute_break_point call
Leg1 == PosSub(ret, req.start)

Leg2 == PosSub(req.end, ret)

Orthogonal(leg) == leg.x = 0 \/ leg.y = 0

\* a 45-degree leg of the extent min(|dx|, |dy|), directed as the delta
Diagonal45(leg) ==
    LET dx == req.end.x - req.start.x
        dy == req.end.y - req.start.y
    IN  /\ Abs(leg.x) = Min(Abs(dx), Abs(dy))
        /\ Abs(leg.y) = Min(Abs(dx), Abs(dy))
        /\ leg.x * dx >= 0
        /\ leg.y * dy >= 0

Is45Call == pc = "compute_break_point" /\ req.mode = "45_degree"

\* C8 (as claimed): in Angle45 mode the path start -> waypoint -> end is one
\* 45-degree diagonal leg of extent min(|dx|,|dy|) on each axis, directed as
\* the delta, followed by one orthogonal leg.
C8_DiagonalThenOrthogonal == Is45Call => (Diagonal45(Leg1) /\ Orthogonal(Leg2))

\* C8 (amended): in Angle45 mode, for every start, end and preference flags,
\* the path start -> waypoint -> end is one orthogonal leg followed by one
\* 45-degree diagonal leg of extent min(|dx|,|dy|) on each axis, directed as
\* the delta.
C8_OrthogonalThenDiagonal == Is45Call => (Orthogonal(Leg1) /\ Diagonal45(Leg2))

\* an Angle45 call with both legs of positive length and a preference set
C8_Witness ==
    /\ Is45Call
    /\ req.prefer_vertical
    /\ Abs(req.end.x - req.start.x) > Abs(req.end.y - req.start.y)
    /\ req.end.y < req.start.y

----------------------------------------------------------------------------
(* Claims about the boundary manager, checked under SpecBoundary.          *)

CheckReturned == pc = "check_path_collision"

StoredBoxes == {component_boundaries[i] : i \in DOMAIN component_boundaries}

CheckedSegments == {req.path.segments[i] : i \in DOMAIN req.path.segments}

Reported(bbox) == bbox.symbol_id \in ret.result.colliding_components

Excluded(bbox) == bbox.symbol_id \in req.exclude_pins

\* the closed box grown by the manager's clearance on every side
InExpanded(bbox, p) ==
    /\ bbox.top_left.x - clearance_nm <= p.x
    /\ p.x <= bbox.bottom_right.x + clearance_nm
    /\ bbox.top_left.y - clearance_nm <= p.y
    /\ p.y <= bbox.bottom_right.y + clearance_nm

BothEndsInside(bbox, segment) ==
    InExpanded(bbox, segment.start) /\ InExpanded(bbox, segment.end)

XRangesOverlap(bbox, segment) ==
    /\ Max(segment.start.x, segment.end.x) >= bbox.top_left.x - clearance_nm
    /\ Min(segment.start.x, segment.end.x) <= bbox.bottom_right.x + clearance_nm

YRangesOverlap(bbox, segment) ==
    /\ Max(segment.start.y, segment.end.y) >= bbox.top_left.y - clearance_nm
    /\ Min(segment.start.y, segment.end.y) <= bbox.bottom_right.y + clearance_nm

Slanted(segment) ==
    segment.start.x # segment.end.x /\ segment.start.y # segment.end.y

\* C9 as stated: for every segment (of any direction) and every stored box,
\* a segment with both endpoints inside the clearance-expanded box gets the
\* component reported as colliding, and a component whose expanded box no
\* segment overlaps in x, or none overlaps in y, is not reported.
C9_InsideReportedApartNot ==
    CheckReturned =>
        \A bbox \in StoredBoxes :
            /\ (\E segment \in CheckedSegments : BothEndsInside(bbox, segment))
                   => Reported(bbox)
            /\ (\A segment \in CheckedSegments :
                    ~XRangesOverlap(bbox, segment) \/ ~YRangesOverlap(bbox, segment))
                   => ~Reported(bbox)

\* C9 amended: for every segment (of any direction) and every stored box
\* whose id is not in exclude_pins, a segment with both endpoints inside the
\* clearance-expanded box gets the component reported as colliding; and for
\* every stored box, a component whose expanded box no segment overlaps in
\* x, or none overlaps in y, is not reported.
C9_InsideReportedUnlessExcluded ==
    CheckReturned =>
        \A bbox \in StoredBoxes :
            /\ (/\ ~Excluded(bbox)
                /\ \E segment \in CheckedSegments : BothEndsInside(bbox, segment))
                   => Reported(bbox)
            /\ (\A segment \in CheckedSegments :
                    ~XRangesOverlap(bbox, segment) \/ ~YRangesOverlap(bbox, segment))
                   => ~Reported(bbox)

\* a slanted segment lies inside one component's expanded box, which is
\* reported, and apart from another's, which is not
C9_Witness ==
    /\ CheckReturned
    /\ \E inside \in StoredBoxes, apart \in StoredBoxes, segment \in CheckedSegments :
          /\ Slanted(segment)
          /\ ~Excluded(inside) /\ ~Excluded(apart)
          /\ BothEndsInside(inside, segment) /\ Reported(inside)
          /\ ~XRangesOverlap(apart, segment) /\ ~Reported(apart)

\* an excluded component whose expanded box holds both ends of a segment
C9_ExcludedInside ==
    /\ CheckReturned
    /\ \E bbox \in StoredBoxes, segment \in CheckedSegments :
          Excluded(bbox) /\ BothEndsInside(bbox, segment) /\ ~Reported(bbox)

\* a horizontal or vertical segment and the closed expanded box have a
\* point in common exactly when their x ranges and their y ranges overlap
SharesPoint(bbox, segment) ==
    XRangesOverlap(bbox, segment) /\ YRangesOverlap(bbox, segment)

AllAxisAligned == \A segment \in CheckedSegments : ~Slanted(segment)

WellFormed(bbox) ==
    bbox.top_left.x <= bbox.bottom_right.x /\ bbox.top_left.y <= bbox.bottom_right.y

\* C10 as stated: for horizontal or vertical segments and every stored box
\* with top_left <= bottom_right, the component is reported as colliding
\* exactly when some segment shares a point with the closed box expanded by
\* the clearance.
C10_ReportedIffSharesPoint ==
    (CheckReturned /\ AllAxisAligned) =>
        \A bbox \in StoredBoxes :
            WellFormed(bbox) =>
                (Reported(bbox) <=>
                    \E segment \in CheckedSegments : SharesPoint(bbox, segment))

\* C10 amended: for horizontal or vertical segments and every stored box
\* with top_left <= bottom_right whose id is not in exclude_pins, the
\* component is reported as colliding exactly when some segment shares a
\* point with the closed box expanded by the clearance; a component whose
\* id is in exclude_pins is not reported.
C10_ReportedIffSharesPointUnlessExcluded ==
    (CheckReturned /\ AllAxisAligned) =>
        \A bbox \in StoredBoxes :
            WellFormed(bbox) =>
                IF Excluded(bbox) THEN ~Reported(bbox)
                ELSE (Reported(bbox) <=>
                         \E segment \in CheckedSegments : SharesPoint(bbox, segment))

\* a horizontal segment runs straight through an expanded box, both of its
\* ends outside, and the component is reported
C10_Witness ==
    /\ CheckReturned /\ AllAxisAligned
    /\ \E bbox \in StoredBoxes, segment \in CheckedSegments :
          /\ ~Excluded(bbox)
          /\ segment.start.y = segment.end.y
          /\ ~InExpanded(bbox, segment.start) /\ ~InExpanded(bbox, segment.end)
          /\ SharesPoint(bbox, segment)
          /\ Reported(bbox)

\* an excluded component whose expanded box a horizontal or vertical
\* segment runs into
C10_ExcludedCrossed ==
    /\ CheckReturned /\ AllAxisAligned
    /\ \E bbox \in StoredBoxes, segment \in CheckedSegments :
          Excluded(bbox) /\ SharesPoint(bbox, segment) /\ ~Reported(bbox)

----------------------------------------------------------------------------
(* The result record of check_path_collision (C11).                        *)

\* twice the signed area of the triangle a, b, c, in squared steps: its
\* sign tells the side of the line through a and b on which c lies
Side(a, b, c) ==
    ((b.x - a.x) \div Step) * ((c.y - a.y) \div Step)
    - ((b.y - a.y) \div Step) * ((c.x - a.x) \div Step)

ExpandedCorners(bbox) ==
    {Pos(x, y) : x \in {bbox.top_left.x - clearance_nm, bbox.bottom_right.x + clearance_nm},
                 y \in {bbox.top_left.y - clearance_nm, bbox.bottom_right.y + clearance_nm}}

\* the segment and the closed expanded box have a point in common: their
\* ranges overlap on both axes and the box is not wholly on one side of the
\* line through the segment
Intersects(bbox, segment) ==
    /\ XRangesOverlap(bbox, segment)
    /\ YRangesOverlap(bbox, segment)
    /\ ~(\A c \in ExpandedCorners(bbox) : Side(segment.start, segment.end, c) > 0)
    /\ ~(\A c \in ExpandedCorners(bbox) : Side(segment.start, segment.end, c) < 0)

\* the stored components that are not excluded and that some segment of
\* the checked path intersects
Offending ==
    {bbox \in StoredBoxes :
        ~Excluded(bbox) /\ \E segment \in CheckedSegments : Intersects(bbox, segment)}

BoxCenter(bbox) ==
    Pos((bbox.top_left.x + bbox.bottom_right.x) \div 2,
        (bbox.top_left.y + bbox.bottom_right.y) \div 2)

\* C11: check_path_collision returns has_collision = true exactly when some
\* segment intersects the clearance-expanded box of a stored component that
\* is not excluded; colliding_components holds exactly the ids of those
\* components; collision_points holds only centers of their boxes; and
\* suggested_clearance is twice the configured clearance.
C11_CollisionResult ==
    CheckReturned =>
        /\ ret.result.has_collision <=> Offending # {}
        /\ ret.result.colliding_components = {bbox.symbol_id : bbox \in Offending}
        /\ \A i \in DOMAIN ret.result.collision_points :
               \E bbox \in Offending : ret.result.collision_points[i] = BoxCenter(bbox)
        /\ ret.result.suggested_clearance = 2 * clearance_nm

\* the parts of C11 that do not depend on the intersection test
C11_FieldsAgree ==
    CheckReturned =>
        /\ ret.result.has_collision <=> ret.result.colliding_components # {}
        /\ ret.result.colliding_components \subseteq
               {bbox.symbol_id : bbox \in StoredBoxes} \ req.exclude_pins
        /\ \A i \in DOMAIN ret.result.collision_points :
               \E bbox \in StoredBoxes :
                   /\ Reported(bbox)
                   /\ ret.result.collision_points[i] = BoxCenter(bbox)
        /\ ret.result.suggested_clearance = 2 * clearance_nm

\* a slanted segment that touches a corner of an expanded box and is not
\* reported
C11_CornerTouchMissed ==
    /\ CheckReturned
    /\ \E bbox \in Offending : ~Reported(bbox)

----------------------------------------------------------------------------
(* The boundary store (C12, C13).                                          *)

StoredIds(boundaries) == {boundaries[i].symbol_id : i \in DOMAIN boundaries}

EntriesOf(boundaries, id) == {i \in DOMAIN boundaries : boundaries[i].symbol_id = id}

\* the box the store holds for a registered id
BoxOf(boundaries, id) ==
    boundaries[CHOOSE i \in DOMAIN boundaries : boundaries[i].symbol_id = id]

PinXs(symbol) == {symbol.pins[i].position.x : i \in DOMAIN symbol.pins}

PinYs(symbol) == {symbol.pins[i].position.y : i \in DOMAIN symbol.pins}

Least(values) == CHOOSE v \in values : \A w \in values : v <= w

Greatest(values) == CHOOSE v \in values : \A w \in values : v >= w

\* the corners of the box of a symbol: the pin extent grown by pin_margin,
\* or the position grown by bare_margin when the symbol has no pin
BoxCorners(symbol, pin_margin, bare_margin) ==
    IF symbol.pins = <<>>
    THEN <<Pos(symbol.position.x - bare_margin, symbol.position.y - bare_margin),
           Pos(symbol.position.x + bare_margin, symbol.position.y + bare_margin)>>
    ELSE <<Pos(Least(PinXs(symbol)) - pin_margin, Least(PinYs(symbol)) - pin_margin),
           Pos(Greatest(PinXs(symbol)) + pin_margin,
               Greatest(PinYs(symbol)) + pin_margin)>>

HasCorners(bbox, corners) == bbox.top_left = corners[1] /\ bbox.bottom_right = corners[2]

QueryOps ==
    {"check_path_collision", "find_components_in_region", "suggest_detour_points",
     "get_component_clearance_zone", "optimize_routing_corridor"}

\* one registration: the store then holds one box per registered id, the
\* registered id's box is the one computed from the symbol just given, and
\* the box of every other id is the one it was
RegistrationStep ==
    pc' = "add_component_boundary" =>
        /\ StoredIds(component_boundaries') =
               StoredIds(component_boundaries) \cup {req'.symbol.id}
        /\ \A id \in StoredIds(component_boundaries') :
               Cardinality(EntriesOf(component_boundaries', id)) = 1
        /\ LET bbox == BoxOf(component_boundaries', req'.symbol.id)
           IN  /\ HasCorners(bbox, BoxCorners(req'.symbol, body_margin, margin))
               /\ bbox.symbol_id = req'.symbol.id
        /\ \A id \in StoredIds(component_boundaries) \ {req'.symbol.id} :
               BoxOf(component_boundaries', id) = BoxOf(component_boundaries, id)

\* C12: after any sequence of add_component_boundary calls the store holds
\* exactly one box per registered symbol id, the box computed by the most
\* recent registration of that id; a registration changes no entry of any
\* other id; and no query changes the store.
C12_StoreFrame ==
    [][/\ RegistrationStep
       /\ pc' \in QueryOps => component_boundaries' = component_boundaries
       /\ pc' = "idle" => component_boundaries' = component_boundaries]_vars

\* an id registered before another one has just been registered again
C12_Witness ==
    /\ pc = "add_component_boundary"
    /\ Len(component_boundaries) = 2
    /\ component_boundaries[1].symbol_id = req.symbol.id
    /\ component_boundaries[1].top_left # component_boundaries[2].top_left

\* every query has been run on a store of two boxes
C12_QueryWitness ==
    /\ pc = "optimize_routing_corridor"
    /\ Len(component_boundaries) = 2
    /\ ret.result.component_count = 2

\* C13 as stated: the stored box of a symbol with pins is the pin extent
\* grown by 635,000 nm, the stored box of a symbol without pins is its
\* position with a margin of 2,540,000 nm on every side, and every stored
\* box has top_left <= bottom_right on both axes.
C13_BoxWithMargin2540000 ==
    /\ pc = "add_component_boundary" =>
           HasCorners(BoxOf(component_boundaries, req.symbol.id),
                      BoxCorners(req.symbol, 635000, 2540000))
    /\ \A bbox \in StoredBoxes : WellFormed(bbox)

\* C13 amended: the stored box of a symbol with pins is the pin extent
\* grown by 635,000 nm, the stored box of a symbol without pins is its
\* position with a margin of 1,270,000 nm on every side (a box 2.54 mm
\* wide), and every stored box has top_left <= bottom_right on both axes.
C13_BoxWithMargin1270000 ==
    /\ pc = "add_component_boundary" =>
           HasCorners(BoxOf(component_boundaries, req.symbol.id),
                      BoxCorners(req.symbol, 635000, 1270000))
    /\ \A bbox \in StoredBoxes : WellFormed(bbox)

\* a symbol without pins and a symbol with several pins are both stored
C13_Witness ==
    /\ pc = "add_component_boundary"
    /\ req.symbol.pins = <<>>
    /\ \E bbox \in StoredBoxes :
          width(bbox) > 2 * body_margin /\ width(bbox) # 2 * margin

----------------------------------------------------------------------------
(* Claims about SmartWireTool, checked under SpecTool.                     *)

DrawCalled == pc = "smart_draw_wire_between_pins"

\* the symbols of the snapshot a call was given: none when symbols_data is
\* neither a list nor a dictionary with 'symbols'
SnapshotSymbols(symbols_data) ==
    IF symbols_data.format \in {"list", "dict"} THEN symbols_data.symbols ELSE <<>>

\* the symbol id is absent from the snapshot, or the pin number is absent
\* from the pins of the symbol with that id
PinMissing(symbol_id, pin_number, symbols) ==
    ~\E i \in DOMAIN symbols :
        /\ symbols[i].id = symbol_id
        /\ \A j \in 1..(i - 1) : symbols[j].id # symbol_id
        /\ \E k \in DOMAIN symbols[i].pins : symbols[i].pins[k].number = pin_number

StartMissing ==
    PinMissing(req.args.start_symbol_id, req.args.start_pin_number,
               SnapshotSymbols(req.args.symbols_data))

EndMissing ==
    PinMissing(req.args.end_symbol_id, req.args.end_pin_number,
               SnapshotSymbols(req.args.symbols_data))

\* a failure whose error names the pin number and the symbol id
FailsNaming(which, pin_number, symbol_id) ==
    /\ ~ret.result.success
    /\ ret.result.error = <<which, pin_number, " not found in symbol ", symbol_id>>

\* a fault inside the call: a symbol of the snapshot has no 'reference', or
\* the bus-aware engine raises on the two pins
InternalFault ==
    LET symbols == SnapshotSymbols(req.args.symbols_data)
        wires == existing_wires_of(req.args.schematic_items)
    IN  \/ \E i \in DOMAIN symbols : ~symbols[i].has_reference
        \/ /\ ~StartMissing /\ ~EndMissing
           /\ routing_mode_enum(req.args.routing_mode) = "manhattan"
           /\ wires # <<>>
           /\ \E i, j \in DOMAIN symbols :
                \E k \in DOMAIN symbols[i].pins, l \in DOMAIN symbols[j].pins :
                    /\ symbols[i].id = req.args.start_symbol_id
                    /\ symbols[i].pins[k].number = req.args.start_pin_number
                    /\ symbols[j].id = req.args.end_symbol_id
                    /\ symbols[j].pins[l].number = req.args.end_pin_number
                    /\ generate_bus_aware_manhattan_path(
                           symbols[i].pins[k], symbols[j].pins[l], wires).raised # "none"

\* symbols_data is a list or a dictionary with 'symbols', and its entries
\* for the start and the end symbol id have their 'reference'
LookupsWellFormed ==
    /\ req.args.symbols_data.format \in {"list", "dict"}
    /\ \A i \in DOMAIN req.args.symbols_data.symbols :
          req.args.symbols_data.symbols[i].id
              \in {req.args.start_symbol_id, req.args.end_symbol_id}
          => req.args.symbols_data.symbols[i].has_reference

C14_MissingStartUnnamed ==
    /\ DrawCalled
    /\ req.args.symbols_data.format \in {"list", "dict"}
    /\ StartMissing
    /\ ret.result.error = <<"Smart routing failed: ", "KeyError">>

\* the pins the two lookups of the call found
StartPinOf ==
    find_pin_in_symbols(req.args.start_symbol_id, req.args.start_pin_number,
                        req.args.symbols_data.symbols).pin[1]

EndPinOf ==
    find_pin_in_symbols(req.args.end_symbol_id, req.args.end_pin_number,
                        req.args.symbols_data.symbols).pin[1]

\* the snapshot is usable and holds both pins
BothPinsFound ==
    /\ req.args.symbols_data.format \in {"list", "dict"}
    /\ \A i \in DOMAIN req.args.symbols_data.symbols :
          req.args.symbols_data.symbols[i].has_reference
    /\ ~StartMissing
    /\ ~EndMissing

CoincidentPins ==
    BothPinsFound
    /\ get_connection_point(StartPinOf) = get_connection_point(EndPinOf)

ZeroLengthPath(path) ==
    /\ IsZero(path.total_length)
    /\ \A i \in DOMAIN path.segments : path.segments[i].start = path.segments[i].end

\* C15 as stated: when the start and end connection points coincide,
\* generate_bus_aware_manhattan_path returns the zero-length direct path
\* without raising, whether or not the wires hold a bus candidate, and
\* smart_draw_wire_between_pins reports success.
C15_CoincidentPinsSucceed ==
    (DrawCalled /\ CoincidentPins) =>
        LET routed == generate_bus_aware_manhattan_path(
                          StartPinOf, EndPinOf,
                          existing_wires_of(req.args.schematic_items))
        IN  /\ routed.raised = "none"
            /\ ZeroLengthPath(routed.path[1])
            /\ ret.result.success
            /\ IsZero(ret.result.routing_analysis.total_length_nm)

\* coincident pins with a bus among the wires: the call fails and leaves
\* sys.stdout bound to its capture
C15_CoincidentWithBusFails ==
    /\ DrawCalled
    /\ CoincidentPins
    /\ analyze_bus_structures(existing_wires_of(req.args.schematic_items)) # <<>>
    /\ ret.result = RoutingFailed("ZeroDivisionError", req.args.routing_mode)
    /\ sys_stdout = DebugCapture

\* coincident pins without a bus candidate: the zero-length path
C15_CoincidentWithoutBusSucceeds ==
    /\ DrawCalled
    /\ CoincidentPins
    /\ existing_wires_of(req.args.schematic_items) # <<>>
    /\ analyze_bus_structures(existing_wires_of(req.args.schematic_items)) = <<>>
    /\ ret.result.success
    /\ ret.result.routing_analysis.bus_aware_debug.routing_algorithm_used
           = "bus_aware_manhattan"
    /\ IsZero(ret.result.routing_analysis.total_length_nm)

----------------------------------------------------------------------------
(* Claims about the bus-aware engine, checked under Spec.                  *)

BusAwareCalled == pc = "generate_bus_aware_manhattan_path"

\* no wire of the list is on the WIRE layer, at least 5,000,000 nm long and
\* axis-aligned
NoBusCandidate(existing_wires) ==
    \A i \in DOMAIN existing_wires :
        \/ existing_wires[i].layer_type # "WIRE"
        \/ LengthBelowNm(DistSq(existing_wires[i].start, existing_wires[i].end), Step,
                         5000000)
        \/ /\ existing_wires[i].start.x # existing_wires[i].end.x
           /\ existing_wires[i].start.y # existing_wires[i].end.y

SquarePart(n) ==
    IF n = 0 THEN 0
    ELSE CHOOSE k \in 1..n :
             /\ n % (k * k) = 0
             /\ \A j \in (k + 1)..n : n % (j * j) # 0

SquareFreePart(n) == IF n = 0 THEN 1 ELSE n \div (SquarePart(n) * SquarePart(n))

RECURSIVE RootCoefficient(_, _)
RootCoefficient(radicands, m) ==
    IF radicands = <<>> THEN 0
    ELSE (IF SquareFreePart(Head(radicands)) = m THEN SquarePart(Head(radicands)) ELSE 0)
         + RootCoefficient(Tail(radicands), m)

\* the sums of the square roots of two lists of naturals are equal: the
\* square roots of distinct square-free numbers are linearly independent
RootSumsEqual(rs, ss) ==
    \A m \in {SquareFreePart((rs \o ss)[i]) : i \in DOMAIN (rs \o ss)} :
        RootCoefficient(rs, m) = RootCoefficient(ss, m)

SegmentLengthsSq(segments) ==
    [i \in DOMAIN segments |-> DistSq(segments[i].start, segments[i].end)]

\* C17: for every path returned by generate_manhattan_path or
\* generate_bus_aware_manhattan_path, direct or through a bus, total_length
\* is the sum of the Euclidean lengths of the path's segments.
C17_TotalLengthIsSegmentSum ==
    (IsPathCall /\ ret.raised = "none") =>
        RootSumsEqual(<<ReturnedPath.total_length[1], ReturnedPath.total_length[2]>>,
                      SegmentLengthsSq(ReturnedPath.segments))

\* the same for the paths that do not go through a bus
C17_DirectLengthIsSegmentSum ==
    (IsPathCall /\ ret.raised = "none" /\ "bus_used" \notin DOMAIN ReturnedPath) =>
        RootSumsEqual(<<ReturnedPath.total_length[1], ReturnedPath.total_length[2]>>,
                      SegmentLengthsSq(ReturnedPath.segments))

\* a path through a bus that bends before the bus: its total_length is the
\* straight distance to the connection point, shorter than the two legs
C17_BusPathShorterThanSegments ==
    /\ BusAwareCalled
    /\ ret.raised = "none"
    /\ "bus_used" \in DOMAIN ReturnedPath
    /\ Len(ReturnedPath.segments) = 3
    /\ ~RootSumsEqual(<<ReturnedPath.total_length[1], ReturnedPath.total_length[2]>>,
                      SegmentLengthsSq(ReturnedPath.segments))

\* what a freshly created tool returns for the arguments of the call
FreshResult ==
    smart_draw_wire_between_pins(NoBoundaries, default_clearance_nm, Console,
                                 req.args).result

\* C18: the result of smart_draw_wire_between_pins is determined by the
\* call's arguments alone: after any sequence of earlier calls on the same
\* tool, a call returns what it returns on a freshly created tool.
C18_ResultFromArgumentsAlone == DrawCalled => ret.result = FreshResult

\* a symbol of an earlier call, absent from the snapshot of this one, is
\* reported as colliding with the path and counted in the corridor
C18_StaleSymbolReported ==
    /\ DrawCalled
    /\ ret.result.success
    /\ \A i \in DOMAIN req.args.symbols_data.symbols :
          req.args.symbols_data.symbols[i].id # "U3"
    /\ "U3" \in ret.result.routing_analysis.colliding_components
    /\ ret.result.routing_analysis.corridor_analysis.component_count = 3
    /\ ~FreshResult.routing_analysis.has_collision

----------------------------------------------------------------------------
(* Claims about parallel invocations, checked under SpecThreads.           *)

ThreadDone(t) == pc[t] = "done"

\* an invocation run on the tool in a given state: [result, boundaries, stdout]
RunOn(invocation, boundaries, stdout) ==
    IF invocation.kind = "analyze_routing_options"
    THEN analyze_routing_options(boundaries, default_clearance_nm, stdout,
                                 invocation.args)
    ELSE smart_draw_wire_between_pins(boundaries, default_clearance_nm, stdout,
                                      invocation.args)

\* what the invocation returns when it runs alone
RunAlone(invocation) == RunOn(invocation, NoBoundaries, Console).result

\* the store and whether sys.stdout is bound to the console, after the
\* invocation of thread a and then that of thread b
SequentialEnd(a, b) ==
    LET first == RunOn(req[a], NoBoundaries, Console)
        second == RunOn(req[b], first.boundaries, first.stdout)
    IN  <<second.boundaries, second.stdout = Console>>

\* C19: under every interleaving of two invocations, each returns the
\* result it returns when run alone, and the boundary store and the
\* sys.stdout binding end as after some sequential execution of the two.
C19_NoInterference ==
    /\ \A t \in Threads : ThreadDone(t) => ret[t].result[1] = RunAlone(req[t])
    /\ (\A t \in Threads : ThreadDone(t))
       => <<component_boundaries, sys_stdout = Console>>
              \in {SequentialEnd(1, 2), SequentialEnd(2, 1)}

\* both calls succeeded and sys.stdout is left bound to the StringIO of
\* one of them: no sequential execution ends like that
C19_StdoutLeftCaptured ==
    /\ \A t \in Threads :
          /\ ThreadDone(t)
          /\ req[t].kind = "smart_draw_wire_between_pins"
          /\ ret[t].result[1].success
    /\ sys_stdout # Console
    /\ SequentialEnd(1, 2)[2]
    /\ SequentialEnd(2, 1)[2]

\* a call reports a collision with a symbol of the other thread's snapshot
C19_OtherSnapshotReported ==
    \E t \in Threads :
        /\ ThreadDone(t)
        /\ req[t].kind = "smart_draw_wire_between_pins"
        /\ ret[t].result[1].success
        /\ "U3" \in ret[t].result[1].routing_analysis.colliding_components
        /\ \A i \in DOMAIN req[t].args.symbols_data.symbols :
              req[t].args.symbols_data.symbols[i].id # "U3"

\* the store holds a mixture no sequential execution leaves
C19_StoreMixed ==
    /\ \A t \in Threads : ThreadDone(t)
    /\ sys_stdout = Console
    /\ component_boundaries \notin {SequentialEnd(1, 2)[1], SequentialEnd(2, 1)[1]}

----------------------------------------------------------------------------
(* Claims about analyze_routing_options, checked under SpecTool.           *)

AnalyzeCalled == pc = "analyze_routing_options"

\* the modes whose routing succeeded
SucceededModes ==
    {mode \in DOMAIN ret.result.routing_options :
        "error" \notin DOMAIN ret.result.routing_options[mode]}

\* the place of a mode in the order manhattan, direct, 45_degree
ModeOrder(mode) ==
    IF mode = "manhattan" THEN 1 ELSE IF mode = "direct" THEN 2 ELSE 3

\* (1,000,000 if the candidate collides, else 0) + length
\* - quality_score * 1000 of one mode is below that of another
ScoreBelow(mode, other) ==
    score_less(score_option(ret.result.routing_options[mode]),
               score_option(ret.result.routing_options[other]))

\* C20: analyze_routing_options recommends, among the modes whose routing
\* succeeded, the one with minimal score, the earliest in the order
\* manhattan, direct, 45_degree when scores tie; it recommends no mode when
\* none succeeded; and it leaves the symbols_data it was given as it was.
C20_RecommendsMinimalScore ==
    AnalyzeCalled =>
        /\ DOMAIN ret.result.routing_options = {"manhattan", "direct", "45_degree"}
        /\ SucceededModes = {} => ret.result.recommended_mode = "None"
        /\ SucceededModes # {} =>
              /\ ret.result.recommended_mode \in SucceededModes
              /\ \A mode \in SucceededModes :
                    /\ ~ScoreBelow(mode, ret.result.recommended_mode)
                    /\ ModeOrder(mode) < ModeOrder(ret.result.recommended_mode)
                       => ScoreBelow(ret.result.recommended_mode, mode)
        /\ ret.symbols_data = req.args.symbols_data

\* the three modes succeeded with the same score, one that counts a
\* collision, and the first of them is recommended
C20_Witness ==
    /\ AnalyzeCalled
    /\ SucceededModes = {"manhattan", "direct", "45_degree"}
    /\ ret.result.routing_options["direct"].has_collision
    /\ ~ScoreBelow("manhattan", "direct")
    /\ ~ScoreBelow("direct", "manhattan")
    /\ ret.result.recommended_mode = "manhattan"

\* no mode succeeded
C20_NoneRecommended ==
    /\ AnalyzeCalled
    /\ SucceededModes = {}
    /\ ret.result.recommended_mode = "None"
    /\ ret.result.analysis.valid_options = 0

----------------------------------------------------------------------------
(* Claims about the mode of the candidate paths, checked under SpecTool.   *)

DrawSucceeded == DrawCalled /\ ret.result.success

\* C21: for each routing mode requested (manhattan, direct, 45_degree) the
\* candidate of smart_draw_wire_between_pins is generated in that mode: the
\* direct candidate is a single straight segment from start to end with
\* mode Direct, the 45_degree candidate has mode Angle45, and the mode in
\* routing_analysis equals the routing_mode of every returned wire segment.
C21_CandidateInRequestedMode ==
    (DrawSucceeded /\ req.args.routing_mode \in {"manhattan", "direct", "45_degree"}) =>
        /\ ret.result.routing_analysis.mode = req.args.routing_mode
        /\ \A i \in DOMAIN ret.result.wire_segments :
              ret.result.wire_segments[i].routing_mode = ret.result.routing_analysis.mode
        /\ req.args.routing_mode = "direct" =>
              /\ Len(ret.result.wire_segments) = 1
              /\ ret.result.wire_segments[1].start_point
                     = Nm(get_connection_point(StartPinOf))
              /\ ret.result.wire_segments[1].end_point
                     = Nm(get_connection_point(EndPinOf))

\* a direct request answered with the two legs of the Manhattan path
C21_DirectRoutedAsManhattan ==
    /\ DrawSucceeded
    /\ req.args.routing_mode = "direct"
    /\ ret.result.routing_analysis.mode = "direct"
    /\ Len(ret.result.wire_segments) = 2
    /\ ret.result.wire_segments[1].routing_mode = "manhattan"
    /\ ret.result.wire_segments[1].end_point # ret.result.wire_segments[2].end_point
    /\ ret.result.wire_segments[1].start_point # ret.result.wire_segments[1].end_point

\* a 45_degree request answered with segments of mode manhattan
C21_Angle45RoutedAsManhattan ==
    /\ DrawSucceeded
    /\ req.args.routing_mode = "45_degree"
    /\ \A i \in DOMAIN ret.result.wire_segments :
          ret.result.wire_segments[i].routing_mode = "manhattan"

----------------------------------------------------------------------------
(* The bus analysis as a state machine: _extract_wire_structures followed  *)
(* by _analyze_bus_structures on lists of up to three 'Line' items whose   *)
(* coordinates are multiples of 5000 nm, the common unit of a step and of  *)
(* the 100000 nm tolerance.  Wire i of a list has the id "W" and i.        *)

AnalyzeBusStructures ==
    /\ pc = "idle"
    /\ LET unit == GCD(Step, wire_axis_tolerance)
           long == min_bus_length \div unit
           slant == wire_axis_tolerance \div unit
           \* from the origin along one axis, level, slanted or reversed
           Wires ==
               {[start |-> a, end |-> b, layer_type |-> layer_type, unit |-> unit] :
                   a \in {Pos(0, 0)},
                   b \in {Pos(l, d) : l \in {long - 1, long, long + slant, -long},
                                      d \in {0, slant - 1, slant, 1 - slant}}
                         \cup {Pos(d, l) : l \in {long - 1, long, long + slant},
                                           d \in {0, slant - 1, slant}},
                   layer_type \in {"WIRE", "GRAPHICAL"}}
           WireId(i) == IF i = 1 THEN "W1" ELSE IF i = 2 THEN "W2" ELSE "W3"
           Identified(wires) ==
               [i \in DOMAIN wires |-> wires[i] @@ [id |-> WireId(i)]]
       IN  \E n \in 0..3 :
              \E wires \in [1..n -> Wires] :
                 /\ req' = [op |-> "analyze_bus_structures", items |-> Identified(wires)]
                 /\ ret' = analyze_bus_structures(
                               extract_wire_structures(Identified(wires)))
    /\ pc' = "analyze_bus_structures"
    /\ UNCHANGED <<component_boundaries, clearance_nm, sys_stdout, router, kicad_wires>>

\* _find_optimal_bus_connection_point on a bus of the analysis: a horizontal
\* bus with pins a little less and a little more than the tolerance off its
\* y, counted in units of 5000 nm, or a vertical bus with pins on both sides
\* of it and beyond its ends, counted in steps
FindOptimalBusConnectionPoint ==
    /\ pc = "idle"
    /\ LET unit == GCD(Step, bus_align_tolerance)
           long == min_bus_length \div unit
           near == bus_align_tolerance \div unit
           steps == min_bus_length \div Step + 1
           BusOf(wire) ==
               analyze_bus_structures(extract_wire_structures(<<wire>>))[1]
           Calls ==
               {[bus |-> BusOf([id |-> "W1", start |-> a, end |-> b,
                                layer_type |-> "WIRE", unit |-> unit]),
                 start_pos |-> start_pos, end_pos |-> end_pos] :
                   a \in {Pos(2 * near, 0)},
                   b \in {Pos(2 * near - long, 0), Pos(2 * near - long, near - 1)},
                   start_pos \in {Pos(x, y) : x \in {-5, 0, 2 * near + 1, 2 * near + 5},
                                              y \in {-near, 1 - near, 0, near - 1, near}},
                   end_pos \in {Pos(x, y) : x \in {-5, 0, 2 * near + 1, 2 * near + 5},
                                            y \in {-near, 1 - near, 0, near - 1, near}}}
               \cup
               {[bus |-> BusOf([id |-> "W1", start |-> a, end |-> b,
                                layer_type |-> "WIRE", unit |-> unit]),
                 start_pos |-> start_pos, end_pos |-> end_pos] :
                   a \in {Pos(-2 * near, 0)},
                   b \in {Pos(long - 2 * near, 0)},
                   start_pos \in {Pos(x, y) : x \in {-2 * near - 5, -2 * near - 1, 0, 5},
                                              y \in {-near, 0, near - 1, near}},
                   end_pos \in {Pos(x, y) : x \in {-2 * near - 5, -2 * near - 1, 0, 5},
                                            y \in {-near, 0, near - 1, near}}}
               \cup
               {[bus |-> BusOf(RawWire("W1", Pos(0, ends[1]), Pos(0, ends[2]), "WIRE")),
                 start_pos |-> start_pos, end_pos |-> end_pos] :
                   ends \in {<<2, 2 - steps>>, <<-2, steps - 2>>},
                   start_pos \in {Pos(x, y) : x \in -2..2, y \in -3..3},
                   end_pos \in {Pos(x, y) : x \in -2..2, y \in -3..3}}
       IN  \E call \in Calls :
              /\ req' = [op |-> "find_optimal_bus_connection_point"] @@ call
              /\ ret' = find_optimal_bus_connection_point(
                            call.start_pos, call.end_pos, call.bus)
    /\ pc' = "find_optimal_bus_connection_point"
    /\ UNCHANGED <<component_boundaries, clearance_nm, sys_stdout, router, kicad_wires>>

SpecWires ==
    Init /\ [][AnalyzeBusStructures \/ FindOptimalBusConnectionPoint \/ Return]_vars

----------------------------------------------------------------------------
(* Claims about the bus candidates, checked under SpecWires.               *)

BusAnalysisCalled == pc = "analyze_bus_structures"

\* the wire is on the WIRE layer and at least 5,000,000 nm long
ElectricalAndLong(wire) ==
    /\ wire.layer_type = "WIRE"
    /\ DistSq(wire.start, wire.end)
           >= (5000000 \div wire.unit) * (5000000 \div wire.unit)

\* the differences of the endpoints in y and in x, in nanometres
DeltaYNm(wire) == Abs(wire.end.y - wire.start.y) * wire.unit

DeltaXNm(wire) == Abs(wire.end.x - wire.start.x) * wire.unit

\* ret holds one candidate for each wire of the request that IsBus accepts,
\* of the type IsHorizontal tells, the longest first
CandidatesAre(IsBus(_), IsHorizontal(_)) ==
    /\ Len(ret) = Cardinality({i \in DOMAIN req.items : IsBus(req.items[i])})
    /\ \A i \in DOMAIN req.items :
          IsBus(req.items[i]) <=>
              \E k \in DOMAIN ret :
                  /\ ret[k].id = req.items[i].id
                  /\ ret[k].type = IF IsHorizontal(req.items[i])
                                   THEN "horizontal" ELSE "vertical"
                  /\ ret[k].length_sq = DistSq(req.items[i].start, req.items[i].end)
    /\ \A k \in DOMAIN ret : \A l \in DOMAIN ret :
          k < l => ret[k].length_sq >= ret[l].length_sq

\* C22 as stated: the bus candidates are exactly the existing wires that
\* are axis-aligned (endpoints share y for a horizontal bus, share x for a
\* vertical bus), lie on the WIRE layer and are at least 5,000,000 nm long,
\* in order of descending length.
C22_BusCandidatesAxisAligned ==
    BusAnalysisCalled =>
        CandidatesAre(LAMBDA wire : /\ ElectricalAndLong(wire)
                                    /\ (DeltaYNm(wire) = 0 \/ DeltaXNm(wire) = 0),
                      LAMBDA wire : DeltaYNm(wire) = 0)

\* C22 amended: the bus candidates are exactly the existing wires on the
\* WIRE layer, at least 5,000,000 nm long, whose endpoints differ by less
\* than 100,000 nm in y (a horizontal bus) or else by less than 100,000 nm
\* in x (a vertical bus), in order of descending length.
C22_BusCandidatesWithinTolerance ==
    BusAnalysisCalled =>
        CandidatesAre(LAMBDA wire : /\ ElectricalAndLong(wire)
                                    /\ (DeltaYNm(wire) < 100000 \/ DeltaXNm(wire) < 100000),
                      LAMBDA wire : DeltaYNm(wire) < 100000)

\* a slanted wire is a candidate, behind a longer one that came after it
C22_Witness ==
    /\ BusAnalysisCalled
    /\ Len(req.items) = 3
    /\ Len(ret) = 2
    /\ ret[1].id = "W3"
    /\ ret[2].id = "W1"
    /\ ret[1].length_sq > ret[2].length_sq
    /\ ret[2].type = "horizontal"
    /\ DeltaYNm(req.items[1]) > 0
    /\ DeltaYNm(req.items[2]) = 100000

----------------------------------------------------------------------------
(* Claims about the bus connection point, checked under SpecWires.         *)

ConnectionPointCalled == pc = "find_optimal_bus_connection_point"

\* v brought into the range of the bus of the request
ClampedToRange(v) ==
    IF v < req.bus.range_start THEN req.bus.range_start
    ELSE IF v > req.bus.range_end THEN req.bus.range_end
    ELSE v

\* the y of the position is within 100,000 nm of the bus's coordinate
WithinOfBusY(position) ==
    Abs(position.y * req.bus.unit - req.bus.coordinate * req.bus.unit) < 100000

\* start -> point -> end, as a length
LengthVia(point) ==
    <<DistSq(req.start_pos, point), DistSq(point, req.end_pos)>>

\* C23: the connection point is on the bus (the bus's fixed coordinate, the
\* other coordinate within the range).  On a horizontal bus its x is
\* start.x if start.y is within 100,000 nm of the bus y, else end.x if
\* end.y is, else the midpoint x of start and end, each clamped to the
\* range.  On a vertical bus its y is whichever of the clamped start.y and
\* end.y gives the shorter start -> point -> end length, start.y on a tie.
C23_ConnectionPointOnBus ==
    ConnectionPointCalled =>
        IF req.bus.type = "horizontal"
        THEN /\ ret.y = req.bus.coordinate
             /\ req.bus.range_start <= ret.x /\ ret.x <= req.bus.range_end
             /\ IF WithinOfBusY(req.start_pos)
                THEN ret.x = ClampedToRange(req.start_pos.x)
                ELSE IF WithinOfBusY(req.end_pos)
                THEN ret.x = ClampedToRange(req.end_pos.x)
                ELSE \E mid \in Min(req.start_pos.x, req.end_pos.x)
                                    ..Max(req.start_pos.x, req.end_pos.x) :
                        /\ 2 * mid <= req.start_pos.x + req.end_pos.x
                        /\ req.start_pos.x + req.end_pos.x <= 2 * mid + 1
                        /\ ret.x = ClampedToRange(mid)
        ELSE LET at_start == Pos(req.bus.coordinate, ClampedToRange(req.start_pos.y))
                 at_end == Pos(req.bus.coordinate, ClampedToRange(req.end_pos.y))
             IN  /\ ret.x = req.bus.coordinate
                 /\ req.bus.range_start <= ret.y /\ ret.y <= req.bus.range_end
                 /\ ret \in {at_start, at_end}
                 /\ ~RealLess(LengthVia(at_start), LengthVia(ret))
                 /\ ~RealLess(LengthVia(at_end), LengthVia(ret))
                 /\ RealEq(LengthVia(at_start), LengthVia(at_end)) => ret = at_start

\* a vertical bus on which both clamped points give the same length and
\* differ: the point at start's y is returned
C23_Witness ==
    /\ ConnectionPointCalled
    /\ req.bus.type = "vertical"
    /\ ClampedToRange(req.start_pos.y) # ClampedToRange(req.end_pos.y)
    /\ ClampedToRange(req.start_pos.y) # req.start_pos.y
    /\ RealEq(LengthVia(Pos(req.bus.coordinate, ClampedToRange(req.start_pos.y))),
              LengthVia(Pos(req.bus.coordinate, ClampedToRange(req.end_pos.y))))
    /\ ret.y = ClampedToRange(req.start_pos.y)

\* a horizontal bus that slants by less than the tolerance, start's y a
\* full tolerance off it and end's y within: end's x, clamped, is returned
C23_EndAlignedWitness ==
    /\ ConnectionPointCalled
    /\ req.bus.type = "horizontal"
    /\ ~WithinOfBusY(req.start_pos)
    /\ WithinOfBusY(req.end_pos)
    /\ req.end_pos.y # req.bus.coordinate
    /\ req.end_pos.x > req.bus.range_end
    /\ ret = Pos(req.bus.range_end, req.bus.coordinate)

\* neither pin within the tolerance and an odd sum of the x's: the midpoint
\* is rounded down
C23_MidpointWitness ==
    /\ ConnectionPointCalled
    /\ req.bus.type = "horizontal"
    /\ ~WithinOfBusY(req.start_pos)
    /\ ~WithinOfBusY(req.end_pos)
    /\ req.start_pos.x + req.end_pos.x = 2 * ret.x + 1
    /\ req.start_pos.x + req.end_pos.x < 0

----------------------------------------------------------------------------
(* check_path_collision statement by statement: every pass of the two for  *)
(* loops and every pass of the "while True" loop of the Cohen-Sutherland   *)
(* test is one step.  ret holds the local variables: the indices of the    *)
(* segment and of the stored box at hand, the pairs visited so far, the    *)
(* hits so far and, inside the test, p1, p2 and their outcodes.            *)

\* a manager that has registered U1 without pins and then one more symbol,
\* which replaces the box of U1 or adds the box of U2
InitClip ==
    /\ pc = "idle"
    /\ req = NoReq
    /\ ret = NoRet
    /\ \E first \in Symbols, second \in Symbols :
          /\ first.id = "U1"
          /\ first.pins = <<>>
          /\ component_boundaries =
                 add_component_boundary(
                     add_component_boundary(NoBoundaries, first, "body_pins"),
                     second, "body_pins")
    /\ clearance_nm \in Clearances
    /\ sys_stdout = Console
    /\ router = NoRouter
    /\ kicad_wires = <<>>

\* the call: exclude_pins, colliding_components = [], collision_points = []
BeginCheckPathCollision ==
    /\ pc = "idle"
    /\ \E path \in {p \in Paths :
                       \/ Len(p.segments) = 2
                       \/ p.segments[1].start
                              \in {Nm(Pos(0, 0)), Nm(Pos(0, 3)), Nm(Pos(1, MaxTrack)),
                                   Nm(Pos(MaxTrack, 2)), Nm(Pos(3, 3)), Nm(Pos(4, 0)),
                                   Nm(Pos(6, 6)), Nm(Pos(2, 5))}},
          exclude_pins \in {{}, {"U1"}} :
          req' = [op |-> "check_path_collision", path |-> path,
                  exclude_pins |-> exclude_pins]
    /\ ret' = [segment |-> 1, box |-> 1, visited |-> <<>>, hits |-> <<>>]
    /\ pc' = "pair"
    /\ UNCHANGED <<component_boundaries, clearance_nm, sys_stdout, router, kicad_wires>>

\* one pass of "for symbol_id, bbox in self.component_boundaries.items()",
\* up to the call of intersects_line, or the end of the loops and the return
ExaminePair ==
    /\ pc = "pair"
    /\ IF ret.segment > Len(req.path.segments)
       THEN /\ ret' = [raised |-> "none", visited |-> ret.visited,
                       result |->
                           [has_collision |-> Len(ret.hits) > 0,
                            colliding_components |->
                                {ret.hits[i].symbol_id : i \in DOMAIN ret.hits},
                            collision_points |->
                                [i \in DOMAIN ret.hits |-> center(ret.hits[i])],
                            suggested_clearance |-> clearance_nm * 2]]
            /\ pc' = "check_path_collision"
       ELSE IF ret.box > Len(component_boundaries)
       THEN /\ ret' = [ret EXCEPT !.segment = ret.segment + 1, !.box = 1]
            /\ pc' = "pair"
       ELSE LET bbox == component_boundaries[ret.box]
                segment == req.path.segments[ret.segment]
                visited == Append(ret.visited, <<ret.segment, bbox.symbol_id>>)
                expanded_bbox == expand(bbox, clearance_nm)
            IN  IF bbox.symbol_id \in req.exclude_pins
                THEN /\ ret' = [ret EXCEPT !.box = ret.box + 1, !.visited = visited]
                     /\ pc' = "pair"
                ELSE /\ ret' = [segment |-> ret.segment, box |-> ret.box,
                                visited |-> visited, hits |-> ret.hits,
                                p1 |-> segment.start, p2 |-> segment.end,
                                outcode1 |-> compute_outcode(expanded_bbox,
                                                 segment.start.x, segment.start.y),
                                outcode2 |-> compute_outcode(expanded_bbox,
                                                 segment.end.x, segment.end.y)]
                     /\ pc' = "clip"
    /\ UNCHANGED <<req, component_boundaries, clearance_nm, sys_stdout, router, kicad_wires>>

\* one pass of the "while True" loop
ClipStep ==
    /\ pc = "clip"
    /\ LET bbox == component_boundaries[ret.box]
           expanded_bbox == expand(bbox, clearance_nm)
           next_pair(hits) ==
               [segment |-> ret.segment, box |-> ret.box + 1,
                visited |-> ret.visited, hits |-> hits]
           outcode_out == IF ret.outcode1 # INSIDE THEN ret.outcode1 ELSE ret.outcode2
           divisor == IF HasZone(outcode_out, TOP) \/ HasZone(outcode_out, BOTTOM)
                      THEN ret.p2.y - ret.p1.y
                      ELSE ret.p2.x - ret.p1.x
           clip(clipped) ==
               IF outcode_out = ret.outcode1
               THEN [ret EXCEPT !.p1 = clipped,
                                !.outcode1 = compute_outcode(expanded_bbox,
                                                             clipped.x, clipped.y)]
               ELSE [ret EXCEPT !.p2 = clipped,
                                !.outcode2 = compute_outcode(expanded_bbox,
                                                             clipped.x, clipped.y)]
       IN  IF ret.outcode1 = INSIDE /\ ret.outcode2 = INSIDE
           THEN ret' = next_pair(Append(ret.hits, bbox)) /\ pc' = "pair"
           ELSE IF ShareZone(ret.outcode1, ret.outcode2)
           THEN ret' = next_pair(ret.hits) /\ pc' = "pair"
           ELSE IF divisor = 0
           THEN ret' = [raised |-> "ZeroDivisionError"] /\ pc' = "check_path_collision"
           ELSE /\ \E clipped \in {clip_point(expanded_bbox, ret.p1, ret.p2, outcode_out)} :
                      ret' = clip(clipped)
                /\ pc' = "clip"
    /\ UNCHANGED <<req, component_boundaries, clearance_nm, sys_stdout, router, kicad_wires>>

\* the loops run on once they are entered: no statement of them waits
SpecClip ==
    /\ InitClip
    /\ [][\/ BeginCheckPathCollision
          \/ ExaminePair
          \/ ClipStep
          \/ (pc = "check_path_collision" /\ Return)]_vars
    /\ WF_vars(ExaminePair)
    /\ WF_vars(ClipStep)

----------------------------------------------------------------------------
(* Claims about the termination of the collision check, checked under      *)
(* SpecClip.                                                               *)

CollisionCheckReturned == pc = "check_path_collision"

\* the pairs of a segment index and a stored box, segment by segment
AllPairs ==
    {<<i, component_boundaries[j].symbol_id>> :
        i \in DOMAIN req.path.segments, j \in DOMAIN component_boundaries}

\* the check has returned a result, without a fault, after visiting every
\* pair of a segment and a stored box exactly once
ReturnedAfterEachPairOnce ==
    /\ CollisionCheckReturned
    /\ ret.raised = "none"
    /\ ret.result.has_collision \in BOOLEAN
    /\ Len(ret.visited) = Cardinality(AllPairs)
    /\ {ret.visited[k] : k \in DOMAIN ret.visited} = AllPairs

\* C24: the clipping loop ends with a boolean for every segment and every
\* box, without dividing by zero, so check_path_collision always ends,
\* having examined each pair of a segment and a stored box once.
C24_CollisionCheckTerminates ==
    /\ [](CollisionCheckReturned => ReturnedAfterEachPairOnce)
    /\ (pc \in {"pair", "clip"} ~> CollisionCheckReturned)

\* a slanted segment checked against two boxes and found to collide, with
\* both its ends outside the two expanded boxes, so that it had to be clipped
C24_Witness ==
    /\ CollisionCheckReturned
    /\ ReturnedAfterEachPairOnce
    /\ Len(req.path.segments) = 1
    /\ Len(component_boundaries) = 2
    /\ req.exclude_pins = {}
    /\ req.path.segments[1].start.x # req.path.segments[1].end.x
    /\ req.path.segments[1].start.y # req.path.segments[1].end.y
    /\ ret.result.has_collision
    /\ \A j \in DOMAIN component_boundaries :
          /\ compute_outcode(expand(component_boundaries[j], clearance_nm),
                             req.path.segments[1].start.x,
                             req.path.segments[1].start.y) # INSIDE
          /\ compute_outcode(expand(component_boundaries[j], clearance_nm),
                             req.path.segments[1].end.x,
                             req.path.segments[1].end.y) # INSIDE

\* the check returns what check_path_collision computes in one piece
C24_StepsAgreeWithWhole ==
    CollisionCheckReturned =>
        /\ ret.raised = "none"
        /\ ret.result = check_path_collision(component_boundaries, clearance_nm,
                                             req.path, req.exclude_pins)

\* the clipping loop after both ends of a slanted segment were clipped
C24_ClippedTwice ==
    /\ pc = "clip"
    /\ ret.p1 # req.path.segments[ret.segment].start
    /\ ret.p2 # req.path.segments[ret.segment].end
    /\ ret.p1.x # ret.p2.x
    /\ ret.p1.y # ret.p2.y

----------------------------------------------------------------------------
(* The ranking of analyze_routing_options on its own: score_option and the *)
(* min() over the valid options, applied to routing_options whose entries  *)
(* are drawn from a set of option records and the error entry.             *)

ScoreOptions ==
    /\ pc = "idle"
    /\ LET Lengths == {<<a * a, b * b>> : a \in {1, 2, 4}, b \in {0, 2}}
           Options ==
               {[length_nm |-> length_nm, quality_score |-> quality_of(scored),
                 has_collision |-> has_collision, segment_count |-> 2] :
                   length_nm \in Lengths, scored \in {<<1, 0>>, <<16, 4>>},
                   has_collision \in BOOLEAN}
               \cup {[error |-> "Smart routing failed"]}
       IN  \E routing_options \in
                  [{routing_modes[i] : i \in DOMAIN routing_modes} -> Options] :
              /\ req' = [op |-> "score_option", routing_options |-> routing_options]
              /\ ret' = [raised |-> "none",
                         best_option |-> min_by_score(routing_modes, routing_options, <<>>)]
    /\ pc' = "score_option"
    /\ UNCHANGED <<component_boundaries, clearance_nm, sys_stdout, router, kicad_wires>>

SpecScore == Init /\ [][ScoreOptions \/ Return]_vars

----------------------------------------------------------------------------
(* Claims about the ranking, checked under SpecScore.                      *)

ScoreCalled == pc = "score_option"

ValidModes ==
    {mode \in DOMAIN req.routing_options : "error" \notin DOMAIN req.routing_options[mode]}

CollisionFree(mode) == ~req.routing_options[mode].has_collision

C25_CollidingRecommended ==
    /\ ScoreCalled
    /\ ret.best_option # <<>>
    /\ ~CollisionFree(ret.best_option[1])
    /\ \E free \in ValidModes : CollisionFree(free)

----------------------------------------------------------------------------
(* Claims about the 45-degree break point, checked under Spec.             *)

Angle45Called == pc = "compute_break_point" /\ req.mode = "45_degree"

\* the break point of the magnitude rule, no preference considered: the
\* vertical break when |dx| < |dy|, else the horizontal break
UnbiasedBreak ==
    LET dx == req.end.x - req.start.x
        dy == req.end.y - req.start.y
    IN  IF Abs(dx) < Abs(dy)
        THEN Pos(req.start.x, IF dy > 0 THEN req.end.y - Abs(dx) ELSE req.end.y + Abs(dx))
        ELSE Pos(IF dx > 0 THEN req.end.x - Abs(dy) ELSE req.end.x + Abs(dy), req.start.y)

\* C26: in 45-degree mode the break point does not depend on the
\* preference flags: with each of their four combinations it is the break
\* point of the unbiased magnitude rule, and it lies within the bounding
\* rectangle of start and end.
C26_Angle45IgnoresPreferences ==
    Angle45Called =>
        /\ ret = UnbiasedBreak
        /\ Min(req.start.x, req.end.x) <= ret.x /\ ret.x <= Max(req.start.x, req.end.x)
        /\ Min(req.start.y, req.end.y) <= ret.y /\ ret.y <= Max(req.start.y, req.end.y)

\* prefer_vertical set where the rule breaks horizontally, end to the lower
\* left of start: the preferred vertical break would leave the rectangle
C26_Witness ==
    /\ Angle45Called
    /\ req.prefer_vertical
    /\ ~req.prefer_horizontal
    /\ req.end.x < req.start.x
    /\ req.end.y > req.start.y
    /\ Abs(req.end.x - req.start.x) > Abs(req.end.y - req.start.y)
    /\ ret.y = req.start.y
    /\ ret.x # req.end.x

----------------------------------------------------------------------------
(* Claims about the direction of a segment, checked under SpecBoundary.    *)

\* the path walked from its end to its start
ReversedPath ==
    [segments |->
        [i \in DOMAIN req.path.segments |->
            Seg(req.path.segments[Len(req.path.segments) + 1 - i].end,
                req.path.segments[Len(req.path.segments) + 1 - i].start)]]

\* C27: the segment/box intersection test does not depend on the direction
\* of the segment: intersects_line(p, q) = intersects_line(q, p) for every
\* segment and box, so a path and its reverse get the same collision result.
C27_DirectionIndependent ==
    CheckReturned =>
        /\ \A segment \in CheckedSegments : \A bbox \in StoredBoxes :
              intersects_line(expand(bbox, clearance_nm), segment.start, segment.end)
                  = intersects_line(expand(bbox, clearance_nm), segment.end, segment.start)
        /\ ret.result.has_collision
               = check_path_collision(component_boundaries, clearance_nm,
                                      ReversedPath, req.exclude_pins).has_collision

\* a single segment reported to collide whose reverse would be reported
\* free of collisions
C27_ReverseMissed ==
    /\ CheckReturned
    /\ Len(req.path.segments) = 1
    /\ ret.result.has_collision
    /\ ~check_path_collision(component_boundaries, clearance_nm,
                             ReversedPath, req.exclude_pins).has_collision

----------------------------------------------------------------------------
(* Claims about sys.stdout, checked under SpecTool.                        *)

\* C28: smart_draw_wire_between_pins leaves sys.stdout as it found it on
\* every return path, a success = false return after a fault inside the
\* bus-aware routing included: after any sequence of calls sys.stdout is
\* still the original stream.
C28_StdoutAsFound == sys_stdout = Console

\* a call that failed inside the bus-aware routing has returned and
\* sys.stdout is bound to the StringIO of the call
C28_LeftCapturedAfterFault ==
    /\ DrawCalled
    /\ ~ret.result.success
    /\ ~StartMissing /\ ~EndMissing
    /\ existing_wires_of(req.args.schematic_items) # <<>>
    /\ sys_stdout = DebugCapture

\* a later call that succeeds returns with sys.stdout still bound to the
\* StringIO an earlier call left behind
C28_StaysCaptured ==
    /\ DrawCalled
    /\ ret.result.success
    /\ sys_stdout = DebugCapture

----------------------------------------------------------------------------
(* Claims about the store after a failed call, checked under SpecTool.     *)

\* C29: a call of smart_draw_wire_between_pins that returns success = false
\* (invalid symbols_data format, pin or symbol not found, malformed symbol
\* record, internal routing fault) leaves the store of the boundary manager
\* exactly as it was before the call.
C29_FailedCallKeepsStore ==
    [][(pc' = "smart_draw_wire_between_pins" /\ ~ret'.result.success)
           => component_boundaries' = component_boundaries]_vars

\* a call on an empty store failed on a symbol record without 'reference'
\* and left the boxes of the symbols before it in the store
C29_MalformedLeavesBoxes ==
    /\ DrawCalled
    /\ ~ret.result.success
    /\ \E i \in DOMAIN SnapshotSymbols(req.args.symbols_data) :
          ~SnapshotSymbols(req.args.symbols_data)[i].has_reference
    /\ component_boundaries # <<>>
    /\ Len(component_boundaries) < Len(SnapshotSymbols(req.args.symbols_data))

\* a call that failed inside the routing left every symbol of its snapshot
\* registered
C29_FaultLeavesBoxes ==
    /\ DrawCalled
    /\ ret.result = RoutingFailed("ZeroDivisionError", req.args.routing_mode)
    /\ Len(component_boundaries) = Len(SnapshotSymbols(req.args.symbols_data))

\* a call that named a missing pin or symbol returned with an empty store
C29_NotFoundKeepsStore ==
    /\ DrawCalled
    /\ ~ret.result.success
    /\ StartMissing \/ EndMissing
    /\ component_boundaries = <<>>

----------------------------------------------------------------------------
(* The stepwise workflow of SchematicSmartRouter.  kicad_wires is the      *)
(* sequence of wires of the schematic that is open in KiCad, in steps;     *)
(* router holds the caches of the workflow and component_boundaries and    *)
(* sys_stdout belong to the router's SmartWireTool.  Of the items of the   *)
(* schematic the wire tool reads the lines only, and KiCad is taken to     *)
(* answer every request.                                                   *)

\* the most wires the schematic holds when a step-3 call starts
MaxWires == 3

\* SchematicAnalyzer.get_schematic_items("all"): a line whose start is
\* within 10 mm of both axes is reported at 100 times its coordinates
get_schematic_items(wires) ==
    LET scale_factor(line) ==
            IF Abs(line.start.x) * Step < 10000000 /\ Abs(line.start.y) * Step < 10000000
            THEN 100 ELSE 1
        scaled(line, p) == Pos(p.x * scale_factor(line), p.y * scale_factor(line))
    IN  <<[items |->
              [i \in DOMAIN wires |->
                  RawWire(wires[i].id, scaled(wires[i], wires[i].start),
                          scaled(wires[i], wires[i].end), wires[i].layer_type)]]>>

\* a router on a schematic without wires, with a graphical line between
\* the pins or with a long wire away from them
InitRouter ==
    /\ pc = "idle"
    /\ req = NoReq
    /\ ret = NoRet
    /\ component_boundaries = NoBoundaries
    /\ clearance_nm = default_clearance_nm
    /\ sys_stdout = Console
    /\ router = NoRouter
    /\ kicad_wires \in
           {<<>>,
            <<RawWire("W0", Pos(0, 1), Pos(MaxReach, 1), "GRAPHICAL")>>,
            <<RawWire("W0", Pos(-2, 16), Pos(MaxReach + 4, 16), "WIRE")>>}

SmartRouteStep2 ==
    /\ pc = "idle"
    /\ router' = [router EXCEPT !.cached_routing_mode = "manhattan",
                                !.cached_routing_constraints = TRUE]
    /\ req' = [op |-> "smart_route_step_2"]
    /\ ret' = [raised |-> "none", workflow |-> "Smart Wire Routing - Step 2 of 3"]
    /\ pc' = "smart_route_step_2"
    /\ UNCHANGED <<component_boundaries, clearance_nm, sys_stdout, kicad_wires>>

\* a key the caller leaves out is "absent", "" or NoItems, and symbols_data
\* without symbols is None.  ret.schematic_items is the value of the local
\* schematic_items the call handed to the wire tool.  A caller hands in
\* items of its own only once the router holds its snapshot: the wires the
\* router draws start within 10 mm of both axes, get_schematic_items
\* reports them at 100 times their coordinates, and lengths of that size
\* are beyond the arithmetic of the bus analysis here.
SmartRouteStep3 ==
    /\ pc = "idle"
    /\ Len(kicad_wires) <= MaxWires
    /\ \E start_symbol_id \in {"U1", ""}, mode \in {"absent", "manhattan", "direct"},
          data \in {d \in SymbolsData :
                        /\ d.format = "list"
                        /\ Len(d.symbols) \in {0, 2}
                        /\ \A i \in DOMAIN d.symbols : d.symbols[i].has_reference},
          items \in {NoItems,
                     <<[items |-> <<RawWire("HB", Pos(-2, 1), Pos(MaxReach + 4, 1),
                                            "WIRE")>>]>>} :
          /\ items # NoItems => router.cached_schematic_items # <<>>
          /\ LET args == [start_symbol_id |-> start_symbol_id, start_pin_number |-> "1",
                          end_symbol_id |-> "U2", end_pin_number |-> "1",
                          symbols_data |-> data, routing_mode |-> mode,
                          schematic_items |-> items]
                 routing_mode ==
                     IF mode # "absent" THEN mode
                     ELSE IF router.cached_routing_mode # "none"
                          THEN router.cached_routing_mode ELSE "manhattan"
                 symbols_data ==
                     IF data.symbols # <<>> THEN data
                     ELSE IF router.cached_symbols_data # <<>>
                          THEN router.cached_symbols_data[1] ELSE data
                 fetched ==
                     items = NoItems /\ router.cached_schematic_items = <<>>
                 schematic_items ==
                     IF items # NoItems THEN items
                     ELSE IF fetched THEN get_schematic_items(kicad_wires)
                     ELSE router.cached_schematic_items[1]
                 missing == start_symbol_id = "" \/ symbols_data.symbols = <<>>
                 \* KiCad names the wires it creates
                 wire_ids == [n \in 1..(MaxWires + 3) |->
                                 <<"T1", "T2", "T3", "T4", "T5", "T6", "T7", "T8">>[n]]
                 DrawWire(segments) ==
                     [i \in DOMAIN segments |->
                         RawWire(wire_ids[Len(kicad_wires) + i],
                                 Pos(segments[i].start_point.x \div Step,
                                     segments[i].start_point.y \div Step),
                                 Pos(segments[i].end_point.x \div Step,
                                     segments[i].end_point.y \div Step), "WIRE")]
                 returns(call) ==
                     /\ component_boundaries' = call.boundaries
                     /\ sys_stdout' = call.stdout
                     /\ IF call.result.success
                        THEN /\ kicad_wires' =
                                    kicad_wires \o DrawWire(call.result.wire_segments)
                             /\ ret' = [raised |-> "none", status |-> "success",
                                        wires_created |-> Len(call.result.wire_segments),
                                        routing_analysis |-> call.result.routing_analysis,
                                        schematic_items |-> schematic_items]
                        ELSE /\ kicad_wires' = kicad_wires
                             /\ ret' = [raised |-> "none", status |-> "failed",
                                        error |-> call.result.error,
                                        schematic_items |-> schematic_items]
             IN  /\ req' = [op |-> "smart_route_step_3", args |-> args]
                 /\ router' =
                        [router EXCEPT
                            !.cached_symbols_data =
                                IF data.symbols # <<>> THEN <<data>> ELSE @,
                            !.cached_schematic_items =
                                IF fetched THEN <<schematic_items>> ELSE @]
                 /\ IF missing
                    THEN /\ ret' = [raised |-> "none",
                                    error |-> "Missing required parameters",
                                    schematic_items |-> schematic_items]
                         /\ UNCHANGED <<component_boundaries, sys_stdout, kicad_wires>>
                    ELSE returns(smart_draw_wire_between_pins(
                                     component_boundaries, clearance_nm, sys_stdout,
                                     [args EXCEPT !.symbols_data = symbols_data,
                                                  !.routing_mode = routing_mode,
                                                  !.schematic_items = schematic_items]))
    /\ pc' = "smart_route_step_3"
    /\ UNCHANGED clearance_nm

\* SchematicSmartRouter(mcp) on an open schematic
SpecRouter == InitRouter /\ [][SmartRouteStep2 \/ SmartRouteStep3 \/ Return]_vars

----------------------------------------------------------------------------
(* Claims about smart_route_step_3, checked under SpecRouter.              *)

\* a step-3 call without schematic_items has handed a snapshot to the wire
\* tool
Step3Routed ==
    /\ pc = "smart_route_step_3"
    /\ req.args.schematic_items = NoItems
    /\ "status" \in DOMAIN ret

\* the ids of the wires in the snapshot a step-3 call used
SnapshotIds(schematic_items) ==
    IF schematic_items = NoItems THEN {}
    ELSE {schematic_items[1].items[i].id : i \in DOMAIN schematic_items[1].items}

\* C30: across step-3 calls that leave schematic_items out, the snapshot a
\* call uses for bus detection holds every wire the schematic held when the
\* call started, the wires created by earlier step-3 calls among them.
C30_SnapshotHoldsCreatedWires ==
    [][(pc' = "smart_route_step_3" /\ req'.args.schematic_items = NoItems
            /\ "status" \in DOMAIN ret')
           => \A i \in DOMAIN kicad_wires :
                 kicad_wires[i].id \in SnapshotIds(ret'.schematic_items)]_vars

\* a step-3 call without schematic_items routed on a snapshot that lacks
\* a wire an earlier step-3 call created
C30_StaleSnapshot ==
    /\ Step3Routed
    /\ ret.status = "success"
    /\ Len(kicad_wires) > ret.wires_created
    /\ kicad_wires[1].id = "T1"
    /\ kicad_wires[1].start # kicad_wires[1].end
    /\ "T1" \notin SnapshotIds(ret.schematic_items)

====
